---- MODULE Spec2Model ----
(***************************************************************************)
(* State-machine model of the PSB learning-platform browser client.        *)
(*                                                                         *)
(* The specifications of the module:                                       *)
(*   SessionSpec   - App startup, login, registration, logout, the global  *)
(*                   401 handler (App, LoginModal, RegisterModal, auth     *)
(*                   API wrappers).                                        *)
(*   ReviewSpec, GradeSpec, ReturnSpec - the submission review page        *)
(*                   (AssignmentsPage and the submissions API wrappers):   *)
(*                   filter, grade, return.                                *)
(*   GradeFormSpec - the grading form alone, with every text the score     *)
(*                   input can hold up to MaxScoreLen characters.          *)
(*   CommentsSpec  - the comment thread of one submission.                 *)
(*   ThreadsSpec   - the comments modal over several submissions.          *)
(*   DashboardSpec, ProjectionSpec - the Dashboard's course list: paging,  *)
(*                   course creation, the projection of the listed items.  *)
(*   FetchLessonsSpec, LessonsSpec, LessonModalSpec - CoursePage and       *)
(*                   LessonModal: loading and sorting lessons, selecting,  *)
(*                   saving, deleting, the lesson form and its file.       *)
(*   CourseRaceSpec - CoursePage with the user acting while requests are   *)
(*                   in flight.                                            *)
(*   UploadRetrySpec - LessonModal on a course without lessons.            *)
(*   WrapperSpec   - what each API wrapper throws for a failed response.   *)
(*   FlagsSpec     - the loading and submitting flags of every page, with  *)
(*                   every request eventually settled.                     *)
(*                                                                         *)
(* `net` is the bag of requests in flight.  A request is created by the    *)
(* handler that calls fetch and consumed by the continuation of the        *)
(* handler that awaited it, which runs with the values its closure         *)
(* captured when the request was issued.                                   *)
(* The session layer's server keeps no state the client reads back, so its *)
(* answer is drawn when the continuation runs; the review page's server    *)
(* answers in a step of its own, from its state at that moment.            *)
(***************************************************************************)
EXTENDS Integers, Sequences, FiniteSets, Bags, TLC

VARIABLES
    \* browser: local storage, location
    access_token, refresh_token, path, navPending,
    \* App
    user, appLoading,
    \* LandingPage / LoginModal / RegisterModal
    modal, loginLoading, loginError, regLoading, regError,
    \* requests in flight, and the response the last settled one received
    net, response,
    \* AssignmentsPage
    submissions, loading, error, statusFilter,
    gradingSubmission, score, feedback, grading, gradeError, validationMessage,
    returningSubmission, returnFeedback, returning,
    \* backend (external collaborator)
    srvStatus

VARIABLES
    \* AssignmentsPage: the comments modal
    viewingComments, comments, newComment, loadingComments, addingComment,
    \* backend: the comment thread of each submission
    srvComments

VARIABLES
    \* Dashboard and its CreateCourseModal
    userCourses, totalCourses, dashLoading, currentPage, perPage,
    showCreateModal, createLoading,
    \* backend: the items /my/courses lists for the user
    srvItems

VARIABLES
    \* CoursePage
    lessons, selectedLesson, courseLoading, courseError, showLessonModal,
    editingLesson, deleteConfirmLesson, deleting,
    \* the call of fetchLessons that is awaiting its Promise.all
    fetching,
    \* LessonModal
    lessonType, lessonOrder, lessonFile, lessonLoading, lessonError,
    \* backend: the lessons of the course, the last lesson id given out
    srvLessons, srvLastId

VARIABLES
    \* a call of an API wrapper with the response its fetch received, and
    \* what the wrapper threw
    called, thrown

browserVars == <<access_token, refresh_token, path, navPending>>
appVars     == <<user, appLoading>>
landingVars == <<modal, loginLoading, loginError, regLoading, regError>>
gradeVars   == <<gradingSubmission, score, feedback, grading, gradeError, validationMessage>>
returnVars  == <<returningSubmission, returnFeedback, returning>>
listVars    == <<submissions, loading, error, statusFilter>>
reviewVars  == <<listVars, gradeVars, returnVars, srvStatus>>
commentVars == <<viewingComments, comments, newComment, loadingComments,
                 addingComment, srvComments>>
\* the state of the pages below the session layer
dashVars    == <<userCourses, totalCourses, dashLoading, currentPage, perPage,
                 showCreateModal, createLoading, srvItems>>
lessonModalVars == <<lessonType, lessonOrder, lessonFile, lessonLoading,
                     lessonError>>
courseVars  == <<lessons, selectedLesson, courseLoading, courseError,
                 showLessonModal, editingLesson, deleteConfirmLesson, deleting,
                 fetching, lessonModalVars, srvLessons, srvLastId>>
wrapperVars == <<called, thrown>>
pageVars    == <<commentVars, dashVars, courseVars, wrapperVars>>
vars        == <<browserVars, appVars, landingVars, net, response, reviewVars,
                 pageVars>>

(***************************************************************************)
(* Bounds of the model.                                                    *)
(***************************************************************************)
MaxInFlight == 2
MaxScoreLen == 5
\* comments the backend accepts
MaxComments == 2
\* items the backend lists for one user
MaxCourses == 7
\* length of the item lists the projection is applied to
MaxItems == 2
\* lessons the backend holds for the course, and the lesson ids it gives out
MaxLessons == 2
MaxLessonId == 3

(***************************************************************************)
(* Values.                                                                 *)
(***************************************************************************)
NoToken == "null"
NoUser  == "null"
NoModal == "null"
NoError == "null"

Users  == {"student1", "teacher1"}
Emails == {"a@x"}
\* passwords typed into the registration form
Passwords == {"12345", "123456"}

NoAuth == [access_token |-> NoToken, refresh_token |-> NoToken]
\* what POST /auth/login can answer
AuthResponses ==
    { [access_token |-> "acc1", refresh_token |-> "ref1"] }
\* what local storage may hold when the page is opened
StoredSessions ==
    { NoAuth, [access_token |-> "acc0", refresh_token |-> "ref0"] }

\* HTTP statuses the server answers with; a transport failure (fetch rejects)
\* takes the same path through every handler as a 500
Statuses == {200, 401, 500}
Ok(status) == status \in 200..299

\* the routes of App: two gated pages and the catch-all
StarPaths == {"/", "/dashboard"}
Paths == StarPaths \cup {"/assignments", "/courses/1"}

(***************************************************************************)
(* Requests in flight.                                                     *)
(***************************************************************************)
InFlight == BagToSet(net)
CanIssue == BagCardinality(net) < MaxInFlight
\* the requests in flight that the wrapper api issued
InFlightOf(api) == {r \in InFlight : r.api = api}

\* the bag reqs with one more, one less copy of the request r
Issue(reqs, r) == reqs (+) SetToBag({r})
Settle(reqs, r) == reqs (-) SetToBag({r})

\* the requests of reqsAfter that reqsBefore does not hold
Issued(reqsBefore, reqsAfter) ==
    {r \in BagToSet(reqsAfter) : CopiesIn(r, reqsAfter) > CopiesIn(r, reqsBefore)}

\* a request of the session layer: `origin` is the handler awaiting it,
\* `orphan` says that the component instance that issued it has unmounted
\* (its state setters are no-ops), `token` is the bearer token sent
AuthRequest(api, origin, token, email) ==
    [api |-> api, origin |-> origin, orphan |-> FALSE,
     token |-> token, email |-> email]

(***************************************************************************)
(* API client: which wrappers reach the global 401 handler.                *)
(***************************************************************************)
AuthApis       == {"login", "register", "getCurrentUser"}
SubmissionApis == {"getPendingSubmissions", "gradeSubmission", "returnSubmission"}
Mutations      == {"gradeSubmission", "returnSubmission"}

\* The wrappers that call handleUnauthorized() on a 401 response: of the
\* wrappers modelled here getCurrentUser does (auth.ts) and getMyCourses
\* does through checkResponse (courses.ts); login and register and every
\* wrapper of submissions.ts go straight to `if (!response.ok) throw`.
ChecksUnauthorized == {"getCurrentUser", "getMyCourses"}

\* handleUnauthorized() runs for this answered request
Unauthorized(api, status) == status = 401 /\ api \in ChecksUnauthorized

(***************************************************************************)
(* App: startup effect, handleAuthSuccess, handleLogout.                   *)
(***************************************************************************)
\* App's useEffect on mount: the requests it issues for the stored token
StartupRequests(token) ==
    IF token # NoToken
    THEN SetToBag({AuthRequest("getCurrentUser", "startup", token, "")})
    ELSE EmptyBag

LandingMounted == ~appLoading /\ user = NoUser /\ path \in StarPaths
DashboardMounted == ~appLoading /\ user # NoUser /\ path \in StarPaths

\* a fresh LandingPage with its two modals
LandingInit ==
    /\ modal' = NoModal
    /\ loginLoading' = FALSE
    /\ loginError' = ""
    /\ regLoading' = FALSE
    /\ regError' = ""

\* the requests reqs once the modals that issued them have unmounted with
\* the LandingPage
Orphan(r) ==
    IF r.origin \in {"LoginModal", "RegisterModal"}
    THEN [r EXCEPT !.orphan = TRUE] ELSE r

Orphaned(reqs) ==
    [o \in {Orphan(r) : r \in BagToSet(reqs)} |->
        CopiesIn(o, reqs) +
        (IF o.orphan /\ o.origin \in {"LoginModal", "RegisterModal"}
         THEN CopiesIn([o EXCEPT !.orphan = FALSE], reqs) ELSE 0)]

\* handleUnauthorized(): both tokens removed, location.href = '/' assigned
\* (the page is replaced once the running handlers have finished)
HandleUnauthorized ==
    /\ access_token' = NoToken
    /\ refresh_token' = NoToken
    /\ navPending' = TRUE

\* The response a wrapper's fetch received: the server's answer to request r.
\* A 2xx answer of register and getCurrentUser carries a user, one of login
\* the token pair.
Response(r, status, u, a) ==
    [api |-> r.api, origin |-> r.origin, status |-> status, user |-> u, auth |-> a]

NoResponse ==
    [api |-> "null", origin |-> "null", status |-> -1, user |-> NoUser, auth |-> NoAuth]

WellFormed(r, status, u, a) ==
    /\ u = NoUser  <=> ~(Ok(status) /\ r.api \in {"register", "getCurrentUser"})
    /\ a = NoAuth  <=> ~(Ok(status) /\ r.api = "login")

\* LandingPage: the header buttons and the modals' "switch" links
OpenModal(m) ==
    /\ LandingMounted
    /\ m \in {"login", "register"}
    /\ modal # m
    /\ modal' = m
    /\ UNCHANGED <<browserVars, appVars, loginLoading, loginError,
                   regLoading, regError, net, response, reviewVars>>
    /\ UNCHANGED pageVars

\* onClose: overlay click, close button, Escape
CloseModal ==
    /\ LandingMounted
    /\ modal # NoModal
    /\ modal' = NoModal
    /\ UNCHANGED <<browserVars, appVars, loginLoading, loginError,
                   regLoading, regError, net, response, reviewVars>>
    /\ UNCHANGED pageVars

\* LoginModal.handleSubmit up to `await login(...)`
LoginSubmit(email) ==
    /\ LandingMounted /\ modal = "login"
    /\ ~loginLoading                       \* submit button disabled={loading}
    /\ CanIssue
    /\ loginError' = ""
    /\ loginLoading' = TRUE
    /\ net' = Issue(net, AuthRequest("login", "LoginModal", NoToken, email))
    /\ UNCHANGED <<browserVars, appVars, modal, regLoading, regError,
                   response, reviewVars>>
    /\ UNCHANGED pageVars

\* RegisterModal.handleSubmit up to `await register(...)`
RegisterSubmit(email, password, confirmPassword) ==
    /\ LandingMounted /\ modal = "register"
    /\ ~regLoading                         \* submit button disabled={loading}
    /\ IF password # confirmPassword
       THEN /\ regError' = "passwords differ"
            /\ UNCHANGED <<regLoading, net>>
       ELSE IF Len(password) < 6
       THEN /\ regError' = "password too short"
            /\ UNCHANGED <<regLoading, net>>
       ELSE /\ CanIssue
            /\ regError' = ""
            /\ regLoading' = TRUE
            /\ net' = Issue(net,
                 AuthRequest("register", "RegisterModal", NoToken, email))
    /\ UNCHANGED <<browserVars, appVars, modal, loginLoading, loginError,
                   response, reviewVars>>
    /\ UNCHANGED pageVars

\* RegisterModal.handleSubmit after `await register(...)`: the returned user
\* is dropped and login is called with the form's credentials
RegisterSettled(r, status, u) ==
    /\ BagIn(r, net) /\ r.api = "register"
    /\ WellFormed(r, status, u, NoAuth)
    /\ response' = Response(r, status, u, NoAuth)
    /\ IF Ok(status)
       THEN /\ net' = Issue(Settle(net, r),
                 [AuthRequest("login", "RegisterModal", NoToken, r.email)
                      EXCEPT !.orphan = r.orphan])
            /\ UNCHANGED <<regError, regLoading>>
       ELSE /\ net' = Settle(net, r)
            /\ regError' = IF r.orphan THEN regError ELSE "register failed"
            /\ regLoading' = IF r.orphan THEN regLoading ELSE FALSE
    /\ UNCHANGED <<browserVars, appVars, modal, loginLoading, loginError, reviewVars>>
    /\ UNCHANGED pageVars

\* App.handleAuthSuccess up to `await getCurrentUser(token)`: the requests
\* in flight after it has run, given local storage holds `token`
HandleAuthSuccess(reqs, token) ==
    IF token # NoToken
    THEN Issue(reqs, AuthRequest("getCurrentUser", "handleAuthSuccess", token, ""))
    ELSE reqs

\* variant: only the access token is persisted
StoreAccessTokenOnly(a) ==
    /\ access_token' = a.access_token
    /\ UNCHANGED refresh_token

\* localStorage.setItem of both tokens of the login response
StoreTokens(a) ==
    /\ access_token' = a.access_token
    /\ refresh_token' = a.refresh_token

\* LoginModal.handleSubmit / RegisterModal.handleSubmit after `await login(...)`
LoginSettled(r, status, a) ==
    /\ BagIn(r, net) /\ r.api = "login"
    /\ WellFormed(r, status, NoUser, a)
    /\ response' = Response(r, status, NoUser, a)
    /\ IF Ok(status)
       THEN /\ StoreTokens(a)
            /\ net' = HandleAuthSuccess(Settle(net, r), a.access_token)
            /\ modal' = IF r.orphan THEN modal ELSE NoModal       \* onClose()
            /\ UNCHANGED <<loginError, regError>>
       ELSE /\ net' = Settle(net, r)
            /\ loginError' = IF ~r.orphan /\ r.origin = "LoginModal"
                             THEN "login failed" ELSE loginError
            /\ regError' = IF ~r.orphan /\ r.origin = "RegisterModal"
                           THEN "login failed" ELSE regError
            /\ UNCHANGED <<access_token, refresh_token, modal>>
    /\ loginLoading' = IF ~r.orphan /\ r.origin = "LoginModal"
                       THEN FALSE ELSE loginLoading
    /\ regLoading' = IF ~r.orphan /\ r.origin = "RegisterModal"
                     THEN FALSE ELSE regLoading
    /\ UNCHANGED <<path, navPending, appVars, reviewVars>>
    /\ UNCHANGED pageVars

\* variant: the catch callback forgets the refresh token
StartupCatchKeepsRefresh ==
    /\ access_token' = NoToken
    /\ UNCHANGED refresh_token

\* the .catch callback of App's startup effect
StartupCatch ==
    /\ access_token' = NoToken
    /\ refresh_token' = NoToken

\* App's startup effect after getCurrentUser(token) settles:
\* .then(setUser).catch(remove both tokens).finally(setLoading(false))
StartupSettled(r, status, u) ==
    /\ BagIn(r, net) /\ r.api = "getCurrentUser" /\ r.origin = "startup"
    /\ WellFormed(r, status, u, NoAuth)
    /\ response' = Response(r, status, u, NoAuth)
    /\ net' = Settle(net, r)
    /\ IF Ok(status)
       THEN /\ user' = u
            /\ UNCHANGED <<access_token, refresh_token, navPending>>
       ELSE /\ StartupCatch
            /\ navPending' = (navPending \/ Unauthorized(r.api, status))
            /\ UNCHANGED user
    /\ appLoading' = FALSE
    /\ UNCHANGED <<path, landingVars, reviewVars>>
    /\ UNCHANGED pageVars

\* App.handleAuthSuccess after `await getCurrentUser(token)`: setUser(user);
\* a rejection is not caught
AuthSuccessSettled(r, status, u) ==
    /\ BagIn(r, net) /\ r.api = "getCurrentUser" /\ r.origin = "handleAuthSuccess"
    /\ WellFormed(r, status, u, NoAuth)
    /\ response' = Response(r, status, u, NoAuth)
    /\ IF Ok(status)
       THEN /\ user' = u
            /\ IF LandingMounted      \* the Dashboard replaces the LandingPage
               THEN LandingInit /\ net' = Orphaned(Settle(net, r))
               ELSE UNCHANGED landingVars /\ net' = Settle(net, r)
            /\ UNCHANGED <<access_token, refresh_token, navPending>>
       ELSE /\ net' = Settle(net, r)
            /\ IF Unauthorized(r.api, status)
               THEN HandleUnauthorized
               ELSE UNCHANGED <<access_token, refresh_token, navPending>>
            /\ UNCHANGED <<user, landingVars>>
    /\ UNCHANGED <<path, appLoading, reviewVars>>
    /\ UNCHANGED pageVars

\* variant: logout forgets the refresh token
HandleLogoutKeepsRefresh ==
    /\ DashboardMounted
    /\ access_token' = NoToken
    /\ user' = NoUser
    /\ UNCHANGED <<refresh_token, path, navPending, appLoading, landingVars,
                   net, response, reviewVars>>
    /\ UNCHANGED pageVars

\* App.handleLogout (the Dashboard's logout button)
HandleLogout ==
    /\ DashboardMounted
    /\ access_token' = NoToken
    /\ refresh_token' = NoToken
    /\ user' = NoUser
    /\ UNCHANGED <<path, navPending, appLoading, landingVars, net, response,
                   reviewVars>>
    /\ UNCHANGED pageVars

\* Dashboard: navigate('/assignments'), navigate(`/courses/${id}`)
OpenPage(p) ==
    /\ DashboardMounted
    /\ p \in {"/assignments", "/courses/1"}
    /\ path' = p
    /\ UNCHANGED <<access_token, refresh_token, navPending, appVars,
                   landingVars, net, response, reviewVars>>
    /\ UNCHANGED pageVars

\* AssignmentsPage header: navigate('/dashboard')
BackToDashboard ==
    /\ ~appLoading /\ user # NoUser /\ path = "/assignments"
    /\ path' = "/dashboard"
    /\ UNCHANGED <<access_token, refresh_token, navPending, appVars,
                   landingVars, net, response, reviewVars>>
    /\ UNCHANGED pageVars

\* The navigation started by `window.location.href = '/'` completes: the
\* document is replaced, every pending continuation is gone, App mounts
\* again and runs its startup effect on what local storage holds now.
PageReload ==
    /\ navPending
    /\ navPending' = FALSE
    /\ path' = "/"
    /\ user' = NoUser
    /\ net' = StartupRequests(access_token)
    /\ appLoading' = (access_token # NoToken)
    /\ response' = NoResponse
    /\ LandingInit
    /\ UNCHANGED <<access_token, refresh_token, reviewVars>>
    /\ UNCHANGED pageVars

\* A plain <a href="/"> of the LandingPage, Dashboard or CoursePage header:
\* a full navigation to the root path
FollowHomeLink ==
    /\ ~appLoading
    /\ path \in StarPaths \/ (user # NoUser /\ path = "/courses/1")
    /\ ~navPending
    /\ navPending' = TRUE
    /\ UNCHANGED <<access_token, refresh_token, path, appVars, landingVars,
                   net, response, reviewVars>>
    /\ UNCHANGED pageVars

(***************************************************************************)
(* App: what it renders.                                                   *)
(***************************************************************************)
\* the segments of a location's pathname
PathSegments(p) ==
    CASE p = "/"            -> <<>>
      [] p = "/dashboard"   -> <<"dashboard">>
      [] p = "/assignments" -> <<"assignments">>
      [] p = "/courses/1"   -> <<"courses", "1">>

\* the `path` of the three <Route> elements, in the order of <Routes>
Splat == <<"*">>
RoutePatterns == << <<"courses", ":courseId">>, <<"assignments">>, Splat >>
\* the dynamic segments
RouteParams == {":courseId"}

\* the pattern matches the pathname: the splat matches everything, another
\* pattern segment by segment, a dynamic segment matching any one segment
RouteMatches(pattern, segments) ==
    \/ pattern = Splat
    \/ /\ Len(pattern) = Len(segments)
       /\ \A i \in 1..Len(pattern) :
             pattern[i] \in RouteParams \/ pattern[i] = segments[i]

\* <Routes>: the route rendered for the pathname (the splat ranks last)
MatchedRoute(p) ==
    LET k == CHOOSE i \in 1..Len(RoutePatterns) :
                /\ RouteMatches(RoutePatterns[i], PathSegments(p))
                /\ \A j \in 1..(i - 1) :
                      ~RouteMatches(RoutePatterns[j], PathSegments(p))
    IN  RoutePatterns[k]

\* variant: the course route renders the page whoever asks
CourseElementUngated(u) == "CoursePage"

\* the `element` of the three routes for the in-memory user u
CourseElement(u) == IF u # NoUser THEN "CoursePage" ELSE "sign in for the course"
AssignmentsElement(u) == IF u # NoUser THEN "AssignmentsPage" ELSE "sign in"
SplatElement(u) == IF u # NoUser THEN "Dashboard" ELSE "LandingPage"

RouteElement(pattern, u) ==
    CASE pattern = <<"courses", ":courseId">> -> CourseElement(u)
      [] pattern = <<"assignments">>           -> AssignmentsElement(u)
      [] pattern = Splat                       -> SplatElement(u)

\* what App returns: the spinner while `loading`, else the matched route's
\* element
AppRenders ==
    IF appLoading THEN "spinner" ELSE RouteElement(MatchedRoute(path), user)

(***************************************************************************)
(* Submissions: values of the review page.                                 *)
(***************************************************************************)
SubmissionIds == {1, 2}
SubmissionStatuses == {"draft", "submitted", "graded", "returned"}
\* SubmissionStatusFilter and STATUS_FILTERS
StatusFilters == {"submitted", "graded", "returned", "all"}

\* max_score of the assignment each submission belongs to
MaxScoreOf(id) == IF id = 1 THEN 1 ELSE 10

\* a PendingSubmission as the list endpoint returns it (the fields the page's
\* logic reads)
PendingSubmission(id, status) ==
    [submission_id |-> id, max_score |-> MaxScoreOf(id), status |-> status]

\* `null` of useState<PendingSubmission | null>
NoSubmission == [submission_id |-> 0, max_score |-> 0, status |-> "null"]

(***************************************************************************)
(* The score field: <input type="number" min=0 max={max_score} required>   *)
(* and parseInt(score).  A text is a sequence of one-character strings.    *)
(***************************************************************************)
Digits == {"0", "1"}
\* the characters typed into the score field
Chars == Digits \cup {"-", ".", "e"}

RECURSIVE TextsOfLen(_)
TextsOfLen(n) ==
    IF n = 0 THEN {<<>>}
    ELSE {Append(t, c) : t \in TextsOfLen(n - 1), c \in Chars}

\* every text of at most MaxScoreLen characters
Texts == UNION {TextsOfLen(n) : n \in 0..MaxScoreLen}

DigitValue(c) == IF c = "1" THEN 1 ELSE 0

\* the index after the run of digits of t that starts at index i
RECURSIVE DigitRun(_, _)
DigitRun(t, i) ==
    IF i <= Len(t) /\ t[i] \in Digits THEN DigitRun(t, i + 1) ELSE i

\* the decimal value of the digits t[i..j-1], after the value acc
RECURSIVE DecimalValue(_, _, _, _)
DecimalValue(t, i, j, acc) ==
    IF i >= j THEN acc ELSE DecimalValue(t, i + 1, j, acc * 10 + DigitValue(t[i]))

\* t read by the grammar of a valid floating-point number:
\*   -? (digits | digits? . digits) (e -? digits)?
\* as sign, mantissa (integer and fraction digits) and decimal exponent
ParseFloat(t) ==
    LET neg      == Len(t) >= 1 /\ t[1] = "-"
        intFrom  == IF neg THEN 2 ELSE 1
        intTo    == DigitRun(t, intFrom)
        hasDot   == intTo <= Len(t) /\ t[intTo] = "."
        fracFrom == IF hasDot THEN intTo + 1 ELSE intTo
        fracTo   == DigitRun(t, fracFrom)
        hasExp   == fracTo <= Len(t) /\ t[fracTo] = "e"
        expNeg   == hasExp /\ fracTo + 1 <= Len(t) /\ t[fracTo + 1] = "-"
        expFrom  == IF ~hasExp THEN fracTo
                    ELSE IF expNeg THEN fracTo + 2 ELSE fracTo + 1
        expTo    == DigitRun(t, expFrom)
        expAbs   == DecimalValue(t, expFrom, expTo, 0)
    IN  [valid    |-> /\ intTo > intFrom \/ hasDot
                      /\ hasDot => fracTo > fracFrom
                      /\ hasExp => expTo > expFrom
                      /\ expTo = Len(t) + 1,
         neg      |-> neg,
         mantissa |-> DecimalValue(t, fracFrom, fracTo,
                                   DecimalValue(t, intFrom, intTo, 0)),
         exponent |-> (IF expNeg THEN 0 - expAbs ELSE expAbs) - (fracTo - fracFrom)]

\* value sanitization of a number input: a text that is not a valid
\* floating-point number reads back as the empty string
Sanitize(t) == IF ParseFloat(t).valid THEN t ELSE <<>>

\* m * 10^e for e >= 0, the multiplication stopped once the value exceeds cap
RECURSIVE ScaleUp(_, _, _)
ScaleUp(m, e, cap) ==
    IF e = 0 \/ m > cap THEN m ELSE ScaleUp(m * 10, e - 1, cap)

\* m / 10^k for m > 0: the quotient, or -1 when it is not an integer
RECURSIVE ScaleDown(_, _)
ScaleDown(m, k) ==
    IF k = 0 THEN m
    ELSE IF m % 10 # 0 THEN -1
    ELSE ScaleDown(m \div 10, k - 1)

\* Constraint validation of the score field holding the valid number text t:
\* required, min = 0, max = max_score, step = 1 (the default) from base 0
ScoreFieldValid(t, max_score) ==
    LET f == ParseFloat(t)
        v == IF f.mantissa = 0 THEN 0
             ELSE IF f.exponent >= 0 THEN ScaleUp(f.mantissa, f.exponent, max_score)
             ELSE ScaleDown(f.mantissa, 0 - f.exponent)
    IN  /\ t # <<>> /\ f.valid                           \* valueMissing, badInput
        /\ ~(f.neg /\ f.mantissa # 0)                    \* rangeUnderflow
        /\ v # -1                                        \* stepMismatch
        /\ v <= max_score                                \* rangeOverflow

\* parseInt(score): an optional sign and the leading digits; NaN without digits
parseInt(t) ==
    LET neg  == Len(t) >= 1 /\ t[1] = "-"
        from == IF neg THEN 2 ELSE 1
        to   == DigitRun(t, from)
        abs  == DecimalValue(t, from, to, 0)
    IN  [isNaN |-> to = from, value |-> IF neg THEN 0 - abs ELSE abs]

(***************************************************************************)
(* Backend of the review page (external collaborator): the status of each  *)
(* submission, the list endpoint, the grade and return endpoints, and the  *)
(* student who resubmits a returned work.                                  *)
(***************************************************************************)
\* GET /gradebook/pending?status_filter=f answered from the statuses st of
\* the submissions 1..n: the matching submissions in the order of their ids
ListItems(f, st) ==
    LET all == [i \in 1..Cardinality(DOMAIN st) |-> i]
        ids == SelectSeq(all, LAMBDA i : f = "all" \/ st[i] = f)
    IN  [k \in 1..Len(ids) |-> PendingSubmission(ids[k], st[ids[k]])]

Rows(list) == {list[k] : k \in 1..Len(list)}

LoadRequest(f) ==
    [api |-> "getPendingSubmissions", phase |-> "sent", status |-> -1,
     filter |-> f, items |-> <<>>]

\* a grade or return request: `filter` and `submission` are the statusFilter
\* and the modal's submission of the render whose handler issued it
MutationRequest(api, f, submission, body) ==
    [api |-> api, phase |-> "sent", status |-> -1,
     filter |-> f, submission |-> submission, body |-> body]

Sent(r)     == r.phase = "sent"
Answered(r) == r.phase = "answered"

ListAnswer(r, status) ==
    /\ BagIn(r, net) /\ Sent(r) /\ r.api = "getPendingSubmissions"
    /\ net' = Issue(Settle(net, r),
         [r EXCEPT !.phase = "answered", !.status = status,
                   !.items = IF Ok(status) THEN ListItems(r.filter, srvStatus)
                             ELSE <<>>])
    /\ UNCHANGED <<browserVars, appVars, landingVars, response,
                   listVars, gradeVars, returnVars, srvStatus>>
    /\ UNCHANGED pageVars

\* POST .../grade/ and POST .../return: a 2xx answer records the new status
MutationAnswer(r, status) ==
    /\ BagIn(r, net) /\ Sent(r) /\ r.api \in {"gradeSubmission", "returnSubmission"}
    /\ net' = Issue(Settle(net, r),
                    [r EXCEPT !.phase = "answered", !.status = status])
    /\ srvStatus' =
         IF Ok(status)
         THEN [srvStatus EXCEPT ![r.submission.submission_id] =
                  IF r.api = "gradeSubmission" THEN "graded" ELSE "returned"]
         ELSE srvStatus
    /\ UNCHANGED <<browserVars, appVars, landingVars, response,
                   listVars, gradeVars, returnVars>>
    /\ UNCHANGED pageVars

\* the student submits a returned work again
Resubmit(i) ==
    /\ srvStatus[i] = "returned"
    /\ srvStatus' = [srvStatus EXCEPT ![i] = "submitted"]
    /\ UNCHANGED <<browserVars, appVars, landingVars, net, response,
                   listVars, gradeVars, returnVars>>
    /\ UNCHANGED pageVars

(***************************************************************************)
(* AssignmentsPage.                                                        *)
(***************************************************************************)
Feedbacks == {"", "well done"}

\* the early return `if (loading)`: nothing but the spinner is rendered
PageRendered == ~loading

\* loadSubmissions() up to `await getPendingSubmissions(token, statusFilter)`,
\* called from a render whose statusFilter is f, the requests reqs in flight
LoadSubmissions(f, reqs) ==
    /\ loading' = TRUE
    /\ net' = Issue(reqs, LoadRequest(f))

\* a filter tab: setStatusFilter, then the effect on [statusFilter] runs
\* loadSubmissions() of the new render
SetStatusFilter(f) ==
    /\ PageRendered
    /\ f # statusFilter
    /\ CanIssue
    /\ statusFilter' = f
    /\ LoadSubmissions(f, net)
    /\ UNCHANGED <<browserVars, appVars, landingVars, response, submissions,
                   error, gradeVars, returnVars, srvStatus>>
    /\ UNCHANGED pageVars

\* loadSubmissions() after the await
LoadSettled(r) ==
    /\ BagIn(r, net) /\ Answered(r) /\ r.api = "getPendingSubmissions"
    /\ net' = Settle(net, r)
    /\ IF Ok(r.status)
       THEN submissions' = r.items /\ UNCHANGED error
       ELSE error' = "load failed" /\ UNCHANGED submissions
    /\ loading' = FALSE
    /\ IF Unauthorized(r.api, r.status)
       THEN HandleUnauthorized
       ELSE UNCHANGED <<access_token, refresh_token, navPending>>
    /\ UNCHANGED <<path, appVars, landingVars, response, statusFilter,
                   gradeVars, returnVars, srvStatus>>
    /\ UNCHANGED pageVars

\* the error banner's close button
DismissError ==
    /\ PageRendered
    /\ error # NoError
    /\ error' = NoError
    /\ UNCHANGED <<browserVars, appVars, landingVars, net, response,
                   submissions, loading, statusFilter, gradeVars, returnVars,
                   srvStatus>>
    /\ UNCHANGED pageVars

\* variant: the grade button is offered for every row
GradeOfferedAlways(s) == TRUE

\* the row's grade button is rendered
GradeOffered(s) == s.status # "graded"

\* the row's return button is rendered
ReturnOffered(s) == s.status = "submitted"

\* the row's grade button
OpenGrade(s) ==
    /\ PageRendered
    /\ s \in Rows(submissions)
    /\ GradeOffered(s)
    /\ gradingSubmission' = s
    /\ score' = <<>>
    /\ feedback' = ""
    /\ gradeError' = NoError
    /\ validationMessage' = FALSE
    /\ UNCHANGED <<browserVars, appVars, landingVars, net, response, listVars,
                   grading, returnVars, srvStatus>>
    /\ UNCHANGED pageVars

\* the grading modal's overlay and cancel button
CloseGrade ==
    /\ PageRendered
    /\ gradingSubmission # NoSubmission
    /\ gradingSubmission' = NoSubmission
    /\ validationMessage' = FALSE
    /\ UNCHANGED <<browserVars, appVars, landingVars, net, response, listVars,
                   score, feedback, grading, gradeError, returnVars, srvStatus>>
    /\ UNCHANGED pageVars

\* typing into the score field: onChange receives the sanitized value
SetScore(t) ==
    /\ PageRendered
    /\ gradingSubmission # NoSubmission
    /\ score' = Sanitize(t)
    /\ score' # score
    /\ validationMessage' = FALSE
    /\ UNCHANGED <<browserVars, appVars, landingVars, net, response, listVars,
                   gradingSubmission, feedback, grading, gradeError,
                   returnVars, srvStatus>>
    /\ UNCHANGED pageVars

SetFeedback(f) ==
    /\ PageRendered
    /\ gradingSubmission # NoSubmission
    /\ f # feedback
    /\ feedback' = f
    /\ UNCHANGED <<browserVars, appVars, landingVars, net, response, listVars,
                   gradingSubmission, score, grading, gradeError,
                   validationMessage, returnVars, srvStatus>>
    /\ UNCHANGED pageVars

\* the browser lets the form submit: the score field satisfies its constraints
SubmitAllowed(t, max_score) == ScoreFieldValid(t, max_score)

\* variant: handleGrade accepts whatever parseInt returns
ScoreRejectedNever(n) == FALSE

\* handleGrade's own check of parseInt(score)
ScoreRejected(n) == n.isNaN \/ n.value < 0

\* `undefined`: JSON.stringify leaves a member with this value out
Undefined == "undefined"

\* `feedback || undefined`: the empty text is not sent
OrUndefined(f) == IF f = "" THEN Undefined ELSE f

\* the GradeCreate handed to gradeSubmission:
\* {score: scoreNum, feedback: feedback || undefined}
GradeCreate(scoreNum, f) == [score |-> scoreNum, feedback |-> OrUndefined(f)]

\* variant: the submit button is disabled only while the score is empty
GradeSubmitDisabledWhenEmpty == score = <<>>

\* the submit button's `disabled={grading || !score}`; the form has no other
\* submit button, so the Enter key submits nothing while it is disabled
GradeSubmitDisabled == grading \/ score = <<>>

\* The grading form is submitted (the submit button, enabled unless
\* `grading || !score`): the browser validates the score field and, if it is
\* satisfied, handleGrade runs up to `await gradeSubmission(...)`.
SubmitGrade ==
    /\ PageRendered
    /\ gradingSubmission # NoSubmission
    /\ ~GradeSubmitDisabled
    /\ IF ~SubmitAllowed(score, gradingSubmission.max_score)
       THEN /\ validationMessage' = TRUE
            /\ UNCHANGED <<net, grading, gradeError>>
       ELSE /\ validationMessage' = FALSE
            /\ IF ScoreRejected(parseInt(score))
               THEN /\ gradeError' = "invalid score"
                    /\ UNCHANGED <<net, grading>>
               ELSE /\ CanIssue
                    /\ gradeError' = NoError
                    /\ grading' = TRUE
                    /\ net' = Issue(net,
                         MutationRequest("gradeSubmission", statusFilter,
                              gradingSubmission,
                              GradeCreate(parseInt(score).value, feedback)))
    /\ UNCHANGED <<browserVars, appVars, landingVars, response, listVars,
                   gradingSubmission, score, feedback, returnVars, srvStatus>>
    /\ UNCHANGED pageVars

\* the filter loadSubmissions() reads when a mutation handler calls it after
\* its await: the statusFilter of the render that started the handler
RefetchFilter(r) == r.filter

\* variant: handleGrade has no finally block
GradeFinallyMissing == grading' = grading

\* handleGrade's `finally { setGrading(false) }`
GradeFinally == grading' = FALSE

\* handleGrade after `await gradeSubmission(...)`
GradeSettled(r) ==
    /\ BagIn(r, net) /\ Answered(r) /\ r.api = "gradeSubmission"
    /\ IF Ok(r.status)
       THEN /\ gradingSubmission' = NoSubmission
            /\ score' = <<>>
            /\ feedback' = ""
            /\ gradeError' = NoError
            /\ validationMessage' = FALSE
            /\ LoadSubmissions(RefetchFilter(r), Settle(net, r))
       ELSE /\ gradeError' = "grade failed"
            /\ net' = Settle(net, r)
            /\ UNCHANGED <<gradingSubmission, score, feedback,
                           validationMessage, loading>>
    /\ GradeFinally
    /\ IF Unauthorized(r.api, r.status)
       THEN HandleUnauthorized
       ELSE UNCHANGED <<access_token, refresh_token, navPending>>
    /\ UNCHANGED <<path, appVars, landingVars, response, submissions, error,
                   statusFilter, returnVars, srvStatus>>
    /\ UNCHANGED pageVars

\* the row's return button
OpenReturn(s) ==
    /\ PageRendered
    /\ s \in Rows(submissions)
    /\ ReturnOffered(s)
    /\ returningSubmission' = s
    /\ returnFeedback' = ""
    /\ UNCHANGED <<browserVars, appVars, landingVars, net, response, listVars,
                   gradeVars, returning, srvStatus>>
    /\ UNCHANGED pageVars

\* the return modal's overlay and cancel button
CloseReturn ==
    /\ PageRendered
    /\ returningSubmission # NoSubmission
    /\ returningSubmission' = NoSubmission
    /\ UNCHANGED <<browserVars, appVars, landingVars, net, response, listVars,
                   gradeVars, returnFeedback, returning, srvStatus>>
    /\ UNCHANGED pageVars

SetReturnFeedback(f) ==
    /\ PageRendered
    /\ returningSubmission # NoSubmission
    /\ f # returnFeedback
    /\ returnFeedback' = f
    /\ UNCHANGED <<browserVars, appVars, landingVars, net, response, listVars,
                   gradeVars, returningSubmission, returning, srvStatus>>
    /\ UNCHANGED pageVars

\* variant: the return request also carries a score
ReturnBodyWithScore(f) == [score |-> 0, feedback |-> OrUndefined(f)]

\* the object returnSubmission serialises: { feedback }, called with
\* `returnFeedback || undefined`
ReturnBody(f) == [feedback |-> OrUndefined(f)]

\* handleReturn up to `await returnSubmission(...)` (the modal's confirm
\* button, disabled while `returning`)
HandleReturn ==
    /\ PageRendered
    /\ returningSubmission # NoSubmission
    /\ ~returning
    /\ CanIssue
    /\ returning' = TRUE
    /\ net' = Issue(net,
         MutationRequest("returnSubmission", statusFilter,
                         returningSubmission, ReturnBody(returnFeedback)))
    /\ UNCHANGED <<browserVars, appVars, landingVars, response, listVars,
                   gradeVars, returningSubmission, returnFeedback, srvStatus>>
    /\ UNCHANGED pageVars

\* handleReturn after `await returnSubmission(...)`
ReturnSettled(r) ==
    /\ BagIn(r, net) /\ Answered(r) /\ r.api = "returnSubmission"
    /\ IF Ok(r.status)
       THEN /\ returningSubmission' = NoSubmission
            /\ returnFeedback' = ""
            /\ LoadSubmissions(RefetchFilter(r), Settle(net, r))
            /\ UNCHANGED error
       ELSE /\ error' = "return failed"
            /\ net' = Settle(net, r)
            /\ UNCHANGED <<returningSubmission, returnFeedback, loading>>
    /\ returning' = FALSE
    /\ IF Unauthorized(r.api, r.status)
       THEN HandleUnauthorized
       ELSE UNCHANGED <<access_token, refresh_token, navPending>>
    /\ UNCHANGED <<path, appVars, landingVars, response, submissions,
                   statusFilter, gradeVars, srvStatus>>
    /\ UNCHANGED pageVars

(***************************************************************************)
(* AssignmentsPage: the comments modal.                                    *)
(***************************************************************************)
\* the texts typed into the comment field
CommentTexts == {<<>>, <<" ">>, <<" ", "a">>}

\* String.prototype.trim
RECURSIVE TrimStart(_)
TrimStart(t) == IF t # <<>> /\ Head(t) = " " THEN TrimStart(Tail(t)) ELSE t

RECURSIVE TrimEnd(_)
TrimEnd(t) ==
    IF t # <<>> /\ t[Len(t)] = " " THEN TrimEnd(SubSeq(t, 1, Len(t) - 1)) ELSE t

Trim(t) == TrimEnd(TrimStart(t))

\* a SubmissionComment (the fields the page's logic reads)
SubmissionComment(id, submission_id, content) ==
    [id |-> id, submission_id |-> submission_id, content |-> content]

NoComment == SubmissionComment(0, 0, <<>>)

\* the answers to a comment request: 0 stands for a rejected fetch() (network
\* error), the others for the HTTP status
CommentStatuses == {0, 200, 500}
\* the answers to an add-comment request
AddCommentStatuses == {200, 500}

\* GET .../submissions/{s}/comments
CommentsRequest(submission_id) ==
    [api |-> "getSubmissionComments", phase |-> "sent", status |-> -1,
     submission_id |-> submission_id, items |-> <<>>]

\* POST .../submissions/{s}/comments with body {content}; `shown` is the
\* `comments` of the render whose handleAddComment awaits the answer
AddCommentRequest(submission_id, content, shown) ==
    [api |-> "addSubmissionComment", phase |-> "sent", status |-> -1,
     submission_id |-> submission_id, content |-> content, shown |-> shown,
     comment |-> NoComment]

\* the comments the backend holds, over all submissions
Stored(threads) ==
    UNION {{threads[i][k] : k \in 1..Len(threads[i])} : i \in DOMAIN threads}

\* backend: answers the thread of the submission
CommentsAnswer(r, status) ==
    /\ BagIn(r, net) /\ Sent(r) /\ r.api = "getSubmissionComments"
    /\ net' = Issue(Settle(net, r),
         [r EXCEPT !.phase = "answered", !.status = status,
                   !.items = IF Ok(status) THEN srvComments[r.submission_id]
                             ELSE <<>>])
    /\ UNCHANGED <<browserVars, appVars, landingVars, response, reviewVars,
                   commentVars>>
    /\ UNCHANGED <<dashVars, courseVars, wrapperVars>>

\* backend: a 2xx answer appends the comment to the thread and returns it
AddCommentAnswer(r, status) ==
    /\ BagIn(r, net) /\ Sent(r) /\ r.api = "addSubmissionComment"
    /\ Ok(status) => Cardinality(Stored(srvComments)) < MaxComments
    /\ LET comment == SubmissionComment(Cardinality(Stored(srvComments)) + 1,
                                        r.submission_id, r.content)
       IN /\ net' = Issue(Settle(net, r),
               [r EXCEPT !.phase = "answered", !.status = status,
                         !.comment = IF Ok(status) THEN comment ELSE NoComment])
          /\ srvComments' =
               IF Ok(status)
               THEN [srvComments EXCEPT
                       ![r.submission_id] = Append(@, comment)]
               ELSE srvComments
    /\ UNCHANGED <<browserVars, appVars, landingVars, response, reviewVars,
                   viewingComments, comments, newComment, loadingComments,
                   addingComment>>
    /\ UNCHANGED <<dashVars, courseVars, wrapperVars>>

\* loadComments up to `await getSubmissionComments(...)`: the row's comments
\* button
LoadComments(s) ==
    /\ PageRendered
    /\ s \in Rows(submissions)
    /\ access_token # NoToken
    /\ CanIssue
    /\ viewingComments' = s
    /\ loadingComments' = TRUE
    /\ net' = Issue(net, CommentsRequest(s.submission_id))
    /\ UNCHANGED <<browserVars, appVars, landingVars, response, reviewVars,
                   comments, newComment, addingComment, srvComments>>
    /\ UNCHANGED <<dashVars, courseVars, wrapperVars>>

\* the response a page's wrapper received: the answer to request r
Received(r) == [NoResponse EXCEPT !.api = r.api, !.status = r.status]

\* variant: the catch block leaves the list as it is
FailedThreadKept(shown) == shown

\* the catch block of loadComments: setComments([])
FailedThread(shown) == <<>>

\* loadComments after its await
CommentsSettled(r) ==
    /\ BagIn(r, net) /\ Answered(r) /\ r.api = "getSubmissionComments"
    /\ net' = Settle(net, r)
    /\ response' = Received(r)
    /\ comments' = IF Ok(r.status) THEN r.items ELSE FailedThread(comments)
    /\ loadingComments' = FALSE
    /\ UNCHANGED <<browserVars, appVars, landingVars, reviewVars,
                   viewingComments, newComment, addingComment, srvComments>>
    /\ UNCHANGED <<dashVars, courseVars, wrapperVars>>

\* the modal's close button and its overlay
CloseComments ==
    /\ PageRendered
    /\ viewingComments # NoSubmission
    /\ viewingComments' = NoSubmission
    /\ UNCHANGED <<browserVars, appVars, landingVars, net, response,
                   reviewVars, comments, newComment, loadingComments,
                   addingComment, srvComments>>
    /\ UNCHANGED <<dashVars, courseVars, wrapperVars>>

\* typing into the comment field
SetNewComment(t) ==
    /\ PageRendered
    /\ viewingComments # NoSubmission
    /\ t # newComment
    /\ newComment' = t
    /\ UNCHANGED <<browserVars, appVars, landingVars, net, response,
                   reviewVars, viewingComments, comments, loadingComments,
                   addingComment, srvComments>>
    /\ UNCHANGED <<dashVars, courseVars, wrapperVars>>

\* the send button: disabled={addingComment || !newComment.trim()}
AddCommentEnabled == ~addingComment /\ Trim(newComment) # <<>>

\* variant: the comment is shown before the server has answered
ShownOptimistically(shown, content) ==
    Append(shown, SubmissionComment(0, 0, content))

\* the list while the add-comment request is in flight: handleAddComment
\* calls no setComments before its await
ShownWhileAdding(shown, content) == shown

\* handleAddComment up to `await addSubmissionComment(...)`, from the send
\* button or from the Enter key of the comment field
HandleAddComment(key) ==
    /\ PageRendered
    /\ viewingComments # NoSubmission
    /\ key \in {"button", "Enter"}
    /\ key = "button" => AddCommentEnabled
    /\ access_token # NoToken
    /\ Trim(newComment) # <<>>
    /\ CanIssue
    /\ addingComment' = TRUE
    /\ net' = Issue(net, AddCommentRequest(viewingComments.submission_id,
                                           Trim(newComment), comments))
    /\ comments' = ShownWhileAdding(comments, Trim(newComment))
    /\ UNCHANGED <<browserVars, appVars, landingVars, response, reviewVars,
                   viewingComments, newComment, loadingComments,
                   srvComments>>
    /\ UNCHANGED <<dashVars, courseVars, wrapperVars>>

\* handleAddComment after its await
AddCommentSettled(r) ==
    /\ BagIn(r, net) /\ Answered(r) /\ r.api = "addSubmissionComment"
    /\ net' = Settle(net, r)
    /\ response' = Received(r)
    /\ IF Ok(r.status)
       THEN /\ comments' = Append(r.shown, r.comment)
            /\ newComment' = <<>>
            /\ UNCHANGED error
       ELSE /\ error' = "add comment failed"
            /\ UNCHANGED <<comments, newComment>>
    /\ addingComment' = FALSE
    /\ UNCHANGED <<browserVars, appVars, landingVars, submissions,
                   loading, statusFilter, gradeVars, returnVars, srvStatus,
                   viewingComments, loadingComments, srvComments>>
    /\ UNCHANGED <<dashVars, courseVars, wrapperVars>>

\* the comments modal has not been opened
CommentsIdle ==
    /\ viewingComments = NoSubmission
    /\ comments = <<>>
    /\ newComment = <<>>
    /\ loadingComments = FALSE
    /\ addingComment = FALSE

(***************************************************************************)
(* Dashboard: the course list with server-side pagination.                 *)
(***************************************************************************)
\* PER_PAGE_OPTIONS, and the initial perPage
PER_PAGE_OPTIONS == {6, 12, 24}
InitialPerPage == 6
\* the page-number buttons shown at most
MaxPageButtons == 5
\* `progress: null`
NoProgress == -1

Min(a, b) == IF a < b THEN a ELSE b
Max(a, b) == IF a > b THEN a ELSE b

\* Math.ceil(total / per) for a total >= 0 and a per > 0
Ceil(total, per) == (total + per - 1) \div per

\* const totalPages = Math.ceil(totalCourses / perPage)
TotalPages == Ceil(totalCourses, perPage)

\* an Enrollment and a Course as /my/courses lists them (the fields the
\* projection reads; status = "" stands for a Course without the member)
Enrollment(id, course_id, progress) ==
    [id |-> id, course_id |-> course_id,
     course_title |-> <<"title", course_id>>, progress |-> progress]

Course(id, status) ==
    IF status = ""
    THEN [id |-> id, title |-> <<"title", id>>]
    ELSE [id |-> id, title |-> <<"title", id>>, status |-> status]

\* a projection that takes the id of an enrollment for the id of its course
UserCourseOfItemId(item) ==
    IF "course_id" \in DOMAIN item
    THEN [id |-> item.id, title |-> item.course_title,
          progress |-> item.progress]
    ELSE [id |-> item.id, title |-> item.title, progress |-> NoProgress,
          status |-> IF "status" \in DOMAIN item THEN item.status ELSE "draft"]

\* the projection of one item of the response into a UserCourse
UserCourse(item) ==
    IF "course_id" \in DOMAIN item
    THEN [id |-> item.course_id, title |-> item.course_title,
          progress |-> item.progress]
    ELSE [id |-> item.id, title |-> item.title, progress |-> NoProgress,
          status |-> IF "status" \in DOMAIN item THEN item.status ELSE "draft"]

\* response.items.map(...)
UserCourses(items) == [k \in 1..Len(items) |-> UserCourse(items[k])]

\* getMyCourses(token, {skip, limit}): GET /my/courses?skip=..&limit=..
CoursesRequest(skip, limit) ==
    [api |-> "getMyCourses", skip |-> skip, limit |-> limit]

\* createCourse(...) awaited by CreateCourseModal.handleSubmit; page and per
\* are the currentPage and perPage of the render whose handleCourseCreated
\* the modal was given as onSuccess
CreateRequest(page, per) ==
    [api |-> "createCourse", page |-> page, per |-> per]

\* backend: the page of the user's items that starts after `skip`
PageOf(items, skip, limit) ==
    SubSeq(items, skip + 1, Min(skip + limit, Len(items)))

\* backend: the k-th course of the teacher
CatalogueCourse(k) ==
    Course(k, IF k % 3 = 0 THEN "" ELSE IF k % 3 = 1 THEN "draft" ELSE "published")

\* Dashboard is on screen
DashboardShown == user # NoUser /\ ~navPending

\* fetchCourses() of a render with currentPage = page and perPage = per, up
\* to `await getMyCourses(...)`, the requests reqs in flight
FetchCourses(page, per, reqs) ==
    IF access_token = NoToken
    THEN net' = reqs /\ UNCHANGED dashLoading
    ELSE /\ dashLoading' = TRUE
         /\ net' = Issue(reqs, CoursesRequest((page - 1) * per, per))

\* setCurrentPage / setPerPage, then the effect on [fetchCourses], which runs
\* when currentPage or perPage has changed
TurnTo(page, per, reqs) ==
    /\ currentPage' = page
    /\ perPage' = per
    /\ IF <<page, per>> # <<currentPage, perPage>>
       THEN FetchCourses(page, per, reqs)
       ELSE net' = reqs /\ UNCHANGED dashLoading

\* the pagination controls are rendered
PaginationShown == DashboardShown /\ totalCourses > 0

\* the pagination controls can be clicked: the create-course modal, while
\* open, lies over the page
PagingReachable == PaginationShown /\ ~showCreateModal

\* what a pagination action leaves alone
PagingUnchanged ==
    UNCHANGED <<browserVars, appVars, landingVars, response, reviewVars,
                commentVars, courseVars, wrapperVars, userCourses,
                totalCourses,
                showCreateModal,
                createLoading, srvItems>>

\* the buttons "first" and "previous": disabled={currentPage === 1}
FirstPage ==
    /\ PagingReachable /\ currentPage # 1 /\ CanIssue
    /\ TurnTo(1, perPage, net)
    /\ PagingUnchanged

PrevPage ==
    /\ PagingReachable /\ currentPage # 1 /\ CanIssue
    /\ TurnTo(Max(1, currentPage - 1), perPage, net)
    /\ PagingUnchanged

\* the page-number buttons 1..min(5, totalPages)
GoToPage(page) ==
    /\ PagingReachable /\ CanIssue
    /\ page \in 1..Min(MaxPageButtons, TotalPages)
    /\ page # currentPage
    /\ TurnTo(page, perPage, net)
    /\ PagingUnchanged

\* the buttons "next" and "last":
\* disabled={currentPage === totalPages || totalPages === 0}
NextPage ==
    /\ PagingReachable /\ CanIssue
    /\ ~(currentPage = TotalPages \/ TotalPages = 0)
    /\ TurnTo(Min(TotalPages, currentPage + 1), perPage, net)
    /\ PagingUnchanged

LastPage ==
    /\ PagingReachable /\ CanIssue
    /\ ~(currentPage = TotalPages \/ TotalPages = 0)
    /\ TurnTo(TotalPages, perPage, net)
    /\ PagingUnchanged

\* handlePerPageChange: setPerPage(newPerPage); setCurrentPage(1)
HandlePerPageChange(newPerPage) ==
    /\ PagingReachable /\ CanIssue
    /\ newPerPage \in PER_PAGE_OPTIONS
    /\ <<1, newPerPage>> # <<currentPage, perPage>>
    /\ TurnTo(1, newPerPage, net)
    /\ PagingUnchanged

\* the "create course" button, rendered for a teacher
OpenCreateModal ==
    /\ DashboardShown /\ user = "teacher1"
    /\ ~showCreateModal
    /\ showCreateModal' = TRUE
    /\ UNCHANGED <<browserVars, appVars, landingVars, net, response,
                   reviewVars, commentVars, courseVars, wrapperVars,
                   userCourses,
                   totalCourses,
                   dashLoading, currentPage, perPage, createLoading, srvItems>>

\* the modal's onClose
CloseCreateModal ==
    /\ DashboardShown /\ showCreateModal
    /\ showCreateModal' = FALSE
    /\ UNCHANGED <<browserVars, appVars, landingVars, net, response,
                   reviewVars, commentVars, courseVars, wrapperVars,
                   userCourses,
                   totalCourses,
                   dashLoading, currentPage, perPage, createLoading, srvItems>>

\* CreateCourseModal.handleSubmit up to `await createCourse(...)`, a title
\* typed (submit button: disabled={loading || !title.trim()})
CreateCourseSubmit ==
    /\ DashboardShown /\ showCreateModal
    /\ ~createLoading
    /\ access_token # NoToken
    /\ CanIssue
    /\ createLoading' = TRUE
    /\ net' = Issue(net, CreateRequest(currentPage, perPage))
    /\ UNCHANGED <<browserVars, appVars, landingVars, response, reviewVars,
                   commentVars, courseVars, wrapperVars, userCourses,
                   totalCourses,
                   dashLoading,
                   currentPage, perPage, showCreateModal, srvItems>>

\* the response a wrapper of courses.ts received to request r
Answer(r, status) == [NoResponse EXCEPT !.api = r.api, !.status = status]

\* handleCourseCreated of a render with currentPage = page, perPage = per
HandleCourseCreated(page, per, reqs) ==
    IF page = 1
    THEN FetchCourses(page, per, reqs) /\ UNCHANGED <<currentPage, perPage>>
    ELSE TurnTo(1, perPage, reqs)

\* CreateCourseModal.handleSubmit after its await: the backend has answered
\* with `status`; on success onSuccess(course), then handleClose()
CreateCourseSettled(r, status) ==
    /\ BagIn(r, net) /\ r.api = "createCourse"
    /\ Ok(status) => Len(srvItems) < MaxCourses
    /\ IF Ok(status)
       THEN /\ srvItems' = Append(srvItems, CatalogueCourse(Len(srvItems) + 1))
            /\ HandleCourseCreated(r.page, r.per, Settle(net, r))
            /\ showCreateModal' = FALSE
       ELSE /\ net' = Settle(net, r)
            /\ UNCHANGED <<srvItems, dashLoading, currentPage, perPage,
                           showCreateModal>>
    /\ createLoading' = FALSE
    /\ response' = Answer(r, status)
    /\ UNCHANGED <<browserVars, appVars, landingVars, reviewVars,
                   commentVars, courseVars, wrapperVars, userCourses,
                   totalCourses>>

\* fetchCourses after its await: the backend has answered with `status` and,
\* on success, with the requested page of the user's items and their number
CoursesSettled(r, status) ==
    /\ BagIn(r, net) /\ r.api = "getMyCourses"
    /\ net' = Settle(net, r)
    /\ IF Ok(status)
       THEN /\ userCourses' = UserCourses(PageOf(srvItems, r.skip, r.limit))
            /\ totalCourses' = Len(srvItems)
       ELSE UNCHANGED <<userCourses, totalCourses>>
    /\ dashLoading' = FALSE
    /\ IF Unauthorized(r.api, status)
       THEN HandleUnauthorized
       ELSE UNCHANGED <<access_token, refresh_token, navPending>>
    /\ response' = Answer(r, status)
    /\ UNCHANGED <<path, appVars, landingVars, reviewVars,
                   commentVars, courseVars, wrapperVars, currentPage, perPage,
                   showCreateModal,
                   createLoading, srvItems>>

\* backend: the user loses an item (a course is deleted)
CourseRemoved ==
    /\ srvItems # <<>>
    /\ srvItems' = SubSeq(srvItems, 1, Len(srvItems) - 1)
    /\ UNCHANGED <<browserVars, appVars, landingVars, net, response,
                   reviewVars, commentVars, courseVars, wrapperVars,
                   userCourses,
                   totalCourses,
                   dashLoading, currentPage, perPage, showCreateModal,
                   createLoading>>

\* Dashboard has not been mounted
DashboardIdle ==
    /\ userCourses = <<>>
    /\ totalCourses = 0
    /\ dashLoading = TRUE
    /\ currentPage = 1
    /\ perPage = InitialPerPage
    /\ showCreateModal = FALSE
    /\ createLoading = FALSE

(***************************************************************************)
(* CoursePage: the lessons of a course, with the assignments of each.      *)
(***************************************************************************)
\* `order` values of lessons; the order input of LessonModal starts at 1
LessonOrders == {1, 5}
InitialOrder == 1
LessonTypes == {"text", "video", "file"}

\* a Lesson as the lessons API lists it (the fields the pages read)
Lesson(id, order, type) == [id |-> id, order |-> order, type |-> type]

\* { ...lesson, assignments }
LessonWithAssignments(lesson, assignments) ==
    [id |-> lesson.id, order |-> lesson.order, type |-> lesson.type,
     assignments |-> assignments]

\* `null` where a lesson is expected
NoLesson == [id |-> 0]

\* backend: the assignments of a lesson
AssignmentsOf(lesson_id) == <<[id |-> 10 + lesson_id, lesson_id |-> lesson_id]>>

\* the comparator (a, b) => a.order - b.order
CompareOrder(a, b) == a.order - b.order

\* an insertion that puts a lesson before the lessons that compare equal
RECURSIVE InsertBeforeTies(_, _)
InsertBeforeTies(sorted, lesson) ==
    IF sorted = <<>> THEN <<lesson>>
    ELSE IF CompareOrder(Head(sorted), lesson) >= 0
         THEN <<lesson>> \o sorted
         ELSE <<Head(sorted)>> \o InsertBeforeTies(Tail(sorted), lesson)

\* Array.prototype.sort is stable: a lesson comes after every lesson that was
\* before it in the array and does not compare greater
RECURSIVE InsertStable(_, _)
InsertStable(sorted, lesson) ==
    IF sorted = <<>> THEN <<lesson>>
    ELSE IF CompareOrder(Head(sorted), lesson) > 0
         THEN <<lesson>> \o sorted
         ELSE <<Head(sorted)>> \o InsertStable(Tail(sorted), lesson)

\* lessonsWithAssignments.sort((a, b) => a.order - b.order)
RECURSIVE SortByOrder(_)
SortByOrder(list) ==
    IF list = <<>> THEN <<>>
    ELSE InsertStable(SortByOrder(SubSeq(list, 1, Len(list) - 1)),
                      list[Len(list)])

\* getCourse(token, courseId)
CourseRequest == [api |-> "getCourse"]

\* getCourseLessons(token, cId) awaited by fetchLessons; `caller` is the
\* handler that called fetchLessons, `about` the id of the editingLesson or
\* deleteConfirmLesson and `selected` the id of the selectedLesson of the
\* render the handler belongs to (0 for null)
LessonsRequest(caller, about, selected) ==
    [api |-> "getCourseLessons", caller |-> caller, about |-> about,
     selected |-> selected]

\* getLessonAssignments(token, cId, lesson.id)
AssignmentsRequest(lesson_id) ==
    [api |-> "getLessonAssignments", lesson_id |-> lesson_id]

\* deleteLesson(token, courseId, deleteConfirmLesson.id)
DeleteRequest(lesson_id, selected) ==
    [api |-> "deleteLesson", lesson_id |-> lesson_id, selected |-> selected]

\* createLesson / updateLesson awaited by LessonModal.handleSubmit, with the
\* type, order and file of the render that submitted; lesson_id is the id of
\* the lesson edited, 0 when a lesson is created
SaveRequest(lesson_id, type, order, file) ==
    [api |-> IF lesson_id = 0 THEN "createLesson" ELSE "updateLesson",
     lesson_id |-> lesson_id, type |-> type, order |-> order, file |-> file]

\* uploadLessonFile(token, courseId, savedLesson.id, file) for a lesson saved
\* with type lesson_type; `about` is the id of the lesson edited
UploadRequest(lesson_id, lesson_type, file, about) ==
    [api |-> "uploadLessonFile", lesson_id |-> lesson_id,
     lesson_type |-> lesson_type, file |-> file, about |-> about]

\* no call of fetchLessons is awaiting its Promise.all
NoCall ==
    [caller |-> "null", about |-> 0, selected |-> 0, items |-> <<>>,
     got |-> <<>>]

\* the result of one callback of lessonsData.items.map: not settled yet
NotYet == [done |-> FALSE, assignments |-> <<>>]

\* the lessons with the assignments the callbacks returned
Merged(items, got) ==
    [k \in 1..Len(items) |-> LessonWithAssignments(items[k], got[k].assignments)]

\* position of the first lesson with this id, 0 when there is none
\* (findIndex(...) + 1)
Position(list, id) ==
    IF \E k \in 1..Len(list) : list[k].id = id
    THEN CHOOSE k \in 1..Len(list) :
            /\ list[k].id = id
            /\ \A j \in 1..(k - 1) : list[j].id # id
    ELSE 0

\* backend: the lessons without the one with this id
RECURSIVE Without(_, _)
Without(list, id) ==
    IF list = <<>> THEN <<>>
    ELSE IF Head(list).id = id THEN Without(Tail(list), id)
         ELSE <<Head(list)>> \o Without(Tail(list), id)

\* the sidebar label of the k-th lesson: `index + 1`
SidebarLabel(k) == k

\* the header label of the selected lesson: findIndex(...) + 1
HeaderLabel == Position(lessons, selectedLesson.id)

\* the lesson number circle the other version of the page shows in the
\* sidebar: {lesson.order}
NumberCircle(k) == lessons[k].order

\* the page is rendered (not the spinner, not the error screen)
CourseRendered == ~courseLoading /\ courseError = NoError

\* neither the lesson modal nor the delete confirmation lies over the page
NoOverlay == ~showLessonModal /\ deleteConfirmLesson = NoLesson

\* no request of the page is in flight and no fetchLessons under way
Quiet == net = EmptyBag /\ fetching = NoCall

\* what the course page and its modal leave alone
outsideCourse ==
    <<browserVars, appVars, landingVars, reviewVars, commentVars, dashVars,
      wrapperVars>>

\* `null` where a File is expected; the MIME types of the files selected
NoFile == "null"
MimeTypes == {"video/mp4", "application/pdf"}
\* validVideoTypes
ValidVideoTypes ==
    {"video/mp4", "video/webm", "video/quicktime", "video/x-msvideo",
     "video/x-matroska"}

\* LessonModal's effect on [lesson, isOpen]: the fields of the lesson edited,
\* or those of a new lesson; file, error and uploadProgress are cleared
ResetFields(lesson) ==
    /\ lessonType' = IF lesson # NoLesson THEN lesson.type ELSE "text"
    /\ lessonOrder' = IF lesson # NoLesson THEN lesson.order ELSE InitialOrder
    /\ lessonFile' = NoFile
    /\ lessonError' = NoError

\* the effect runs when the lesson prop or isOpen has changed
ModalEffect(lessonAfter, isOpenAfter) ==
    IF <<lessonAfter, isOpenAfter>> # <<editingLesson, showLessonModal>>
    THEN ResetFields(lessonAfter)
    ELSE UNCHANGED <<lessonType, lessonOrder, lessonFile, lessonError>>

\* the continuation of the handler `call.caller` after `await fetchLessons`,
\* which returned `result`
FetchLessonsReturned(call, result) ==
    /\ lessons' = result
    /\ CASE call.caller = "fetchData" ->
              /\ selectedLesson' =
                    IF Len(result) > 0 THEN result[1] ELSE selectedLesson
              /\ courseLoading' = FALSE
              /\ UNCHANGED <<editingLesson, deleteConfirmLesson, deleting,
                             lessonType, lessonOrder, lessonFile, lessonError>>
         [] call.caller = "handleLessonSuccess" ->
              /\ selectedLesson' =
                    IF call.about # 0
                    THEN IF Position(result, call.about) # 0
                         THEN result[Position(result, call.about)]
                         ELSE selectedLesson
                    ELSE IF Len(result) > 0 THEN result[Len(result)]
                         ELSE selectedLesson
              /\ editingLesson' = NoLesson
              /\ ModalEffect(NoLesson, showLessonModal)
              /\ UNCHANGED <<courseLoading, deleteConfirmLesson, deleting>>
         [] call.caller = "handleDeleteLesson" ->
              /\ selectedLesson' =
                    IF call.selected = call.about
                    THEN IF Len(result) > 0 THEN result[1] ELSE NoLesson
                    ELSE selectedLesson
              /\ deleteConfirmLesson' = NoLesson
              /\ deleting' = FALSE
              /\ UNCHANGED <<courseLoading, editingLesson,
                             lessonType, lessonOrder, lessonFile, lessonError>>
    /\ UNCHANGED courseError

\* the catch (and finally) of the handler `caller` when fetchLessons threw
FetchLessonsFailed(caller) ==
    /\ CASE caller = "fetchData" ->
              /\ courseError' = "lessons not loaded"
              /\ courseLoading' = FALSE
              /\ UNCHANGED <<editingLesson, deleting,
                             lessonType, lessonOrder, lessonFile, lessonError>>
         [] caller = "handleLessonSuccess" ->
              /\ editingLesson' = NoLesson
              /\ ModalEffect(NoLesson, showLessonModal)
              /\ UNCHANGED <<courseError, courseLoading, deleting>>
         [] caller = "handleDeleteLesson" ->
              /\ deleting' = FALSE
              /\ UNCHANGED <<courseError, courseLoading, editingLesson,
                             lessonType, lessonOrder, lessonFile, lessonError>>
    /\ UNCHANGED <<lessons, selectedLesson, deleteConfirmLesson>>

\* fetchData after `await getCourse`: setCourse, then fetchLessons up to its
\* first await; on failure the catch and finally
CourseSettled(r, status) ==
    /\ BagIn(r, net) /\ r.api = "getCourse"
    /\ IF Ok(status)
       THEN /\ net' = Issue(Settle(net, r), LessonsRequest("fetchData", 0, 0))
            /\ UNCHANGED <<courseError, courseLoading>>
       ELSE /\ net' = Settle(net, r)
            /\ courseError' = "course not loaded"
            /\ courseLoading' = FALSE
    /\ response' = Answer(r, status)
    /\ UNCHANGED <<outsideCourse, lessons, selectedLesson, showLessonModal,
                   editingLesson, deleteConfirmLesson, deleting, fetching,
                   lessonModalVars, srvLessons, srvLastId>>

\* fetchLessons after `await getCourseLessons`: the backend has answered with
\* `status` and, on success, with its lessons; one getLessonAssignments per
\* lesson is issued (Promise.all over lessonsData.items.map); with no lesson
\* fetchLessons returns at once, and on failure it throws
LessonsSettled(r, status) ==
    /\ BagIn(r, net) /\ r.api = "getCourseLessons"
    /\ fetching = NoCall
    /\ Ok(status) => BagCardinality(net) - 1 + Len(srvLessons) <= MaxInFlight
    /\ response' = Answer(r, status)
    /\ IF ~Ok(status)
       THEN /\ net' = Settle(net, r)
            /\ FetchLessonsFailed(r.caller)
            /\ UNCHANGED fetching
       ELSE IF srvLessons = <<>>
       THEN /\ net' = Settle(net, r)
            /\ FetchLessonsReturned(r, SortByOrder(<<>>))
            /\ UNCHANGED fetching
       ELSE /\ net' = Settle(net, r) (+)
                      SetToBag({AssignmentsRequest(srvLessons[k].id) :
                                   k \in 1..Len(srvLessons)})
            /\ fetching' = [caller |-> r.caller, about |-> r.about,
                            selected |-> r.selected, items |-> srvLessons,
                            got |-> [k \in 1..Len(srvLessons) |-> NotYet]]
            /\ UNCHANGED <<lessons, selectedLesson, courseLoading, courseError,
                           editingLesson, deleteConfirmLesson, deleting,
                           lessonType, lessonOrder, lessonFile, lessonError>>
    /\ UNCHANGED <<outsideCourse, showLessonModal, lessonLoading, srvLessons,
                   srvLastId>>

\* a callback that returns the assignments of the lesson whatever the answer
AssignmentsRegardless(lesson_id, status) == AssignmentsOf(lesson_id)

\* what a callback of lessonsData.items.map gives the lesson as assignments:
\* assignmentsData.items, or [] from its catch
AssignmentsOrNone(lesson_id, status) ==
    IF Ok(status) THEN AssignmentsOf(lesson_id) ELSE <<>>

\* one callback of lessonsData.items.map after `await getLessonAssignments`:
\* the items of the answer, or [] from its catch; when the last callback has
\* returned, Promise.all resolves, fetchLessons sorts and returns
AssignmentsSettled(r, status) ==
    /\ BagIn(r, net) /\ r.api = "getLessonAssignments"
    /\ fetching # NoCall
    /\ LET k == Position(fetching.items, r.lesson_id)
           got == [fetching.got EXCEPT ![k] =
                      [done |-> TRUE,
                       assignments |->
                           AssignmentsOrNone(r.lesson_id, status)]]
       IN  /\ k # 0
           /\ ~fetching.got[k].done
           /\ IF \A j \in 1..Len(got) : got[j].done
              THEN /\ FetchLessonsReturned(fetching,
                         SortByOrder(Merged(fetching.items, got)))
                   /\ fetching' = NoCall
              ELSE /\ fetching' = [fetching EXCEPT !.got = got]
                   /\ UNCHANGED <<lessons, selectedLesson, courseLoading,
                                  courseError, editingLesson,
                                  deleteConfirmLesson, deleting, lessonType,
                                  lessonOrder, lessonFile, lessonError>>
    /\ net' = Settle(net, r)
    /\ response' = Answer(r, status)
    /\ UNCHANGED <<outsideCourse, showLessonModal, lessonLoading, srvLessons,
                   srvLastId>>

\* handleSelectLesson(lesson) from the sidebar
HandleSelectLesson(k) ==
    /\ CourseRendered /\ NoOverlay
    /\ k \in 1..Len(lessons)
    /\ selectedLesson' = lessons[k]
    /\ UNCHANGED <<outsideCourse, net, response, lessons, courseLoading,
                   courseError, showLessonModal, editingLesson,
                   deleteConfirmLesson, deleting, fetching, lessonModalVars,
                   srvLessons, srvLastId>>

\* openNewLessonModal
OpenNewLessonModal ==
    /\ CourseRendered /\ NoOverlay
    /\ editingLesson' = NoLesson
    /\ showLessonModal' = TRUE
    /\ ModalEffect(NoLesson, TRUE)
    /\ UNCHANGED <<outsideCourse, net, response, lessons, selectedLesson,
                   courseLoading, courseError, deleteConfirmLesson, deleting,
                   fetching, lessonLoading, srvLessons, srvLastId>>

\* openEditLessonModal(selectedLesson)
OpenEditLessonModal ==
    /\ CourseRendered /\ NoOverlay
    /\ selectedLesson # NoLesson
    /\ editingLesson' = selectedLesson
    /\ showLessonModal' = TRUE
    /\ ModalEffect(selectedLesson, TRUE)
    /\ UNCHANGED <<outsideCourse, net, response, lessons, selectedLesson,
                   courseLoading, courseError, deleteConfirmLesson, deleting,
                   fetching, lessonLoading, srvLessons, srvLastId>>

\* the onClose CoursePage gives to LessonModal
OnCloseLessonModal ==
    /\ showLessonModal' = FALSE
    /\ editingLesson' = NoLesson
    /\ ModalEffect(NoLesson, FALSE)

\* the backdrop, the close button and the cancel button of LessonModal
CloseLessonModal ==
    /\ CourseRendered /\ showLessonModal
    /\ OnCloseLessonModal
    /\ UNCHANGED <<outsideCourse, net, response, lessons, selectedLesson,
                   courseLoading, courseError, deleteConfirmLesson, deleting,
                   fetching, lessonLoading, srvLessons, srvLastId>>

\* what a field of LessonModal's form leaves alone
FormUnchanged ==
    UNCHANGED <<outsideCourse, net, response, lessons, selectedLesson,
                courseLoading, courseError, showLessonModal, editingLesson,
                deleteConfirmLesson, deleting, fetching, lessonLoading,
                srvLessons, srvLastId>>

\* the three type buttons: setType
SetType(type) ==
    /\ CourseRendered /\ showLessonModal
    /\ type \in LessonTypes /\ type # lessonType
    /\ lessonType' = type
    /\ UNCHANGED <<lessonOrder, lessonFile, lessonError>>
    /\ FormUnchanged

\* the order input: setOrder(parseInt(e.target.value) || 1)
SetOrder(order) ==
    /\ CourseRendered /\ showLessonModal
    /\ order \in LessonOrders /\ order # lessonOrder
    /\ lessonOrder' = order
    /\ UNCHANGED <<lessonType, lessonFile, lessonError>>
    /\ FormUnchanged

\* the error that names the accepted formats
VideoFormats == "select a video file (MP4, WebM, MOV, AVI, MKV)"

\* a file a lesson of type `video` is not given
VideoRejected(type, mime) == type = "video" /\ mime \notin ValidVideoTypes

\* handleFileChange: a file of MIME type `mime` is selected in the file
\* input, which is rendered for the types video and file
HandleFileChange(mime) ==
    /\ CourseRendered /\ showLessonModal
    /\ lessonType \in {"video", "file"}
    /\ mime \in MimeTypes
    /\ IF VideoRejected(lessonType, mime)
       THEN /\ lessonError' = VideoFormats
            /\ UNCHANGED lessonFile
       ELSE /\ lessonFile' = mime
            /\ lessonError' = NoError
    /\ UNCHANGED <<lessonType, lessonOrder>>
    /\ FormUnchanged

\* LessonModal.handleSubmit up to `await createLesson / updateLesson`, a
\* title typed (submit button: disabled={loading || !title.trim()})
LessonSubmit ==
    /\ CourseRendered /\ showLessonModal
    /\ ~lessonLoading
    /\ IF access_token = NoToken
       THEN /\ lessonError' = "authorization required"
            /\ UNCHANGED <<net, lessonLoading>>
       ELSE /\ lessonError' = NoError
            /\ lessonLoading' = TRUE
            /\ net' = Issue(net, SaveRequest(editingLesson.id, lessonType,
                                             lessonOrder, lessonFile))
    /\ UNCHANGED <<outsideCourse, response, lessons, selectedLesson,
                   courseLoading, courseError, showLessonModal, editingLesson,
                   deleteConfirmLesson, deleting, fetching, lessonType,
                   lessonOrder, lessonFile, srvLessons, srvLastId>>

\* handleLessonSuccess of a render with editingLesson.id = about (0 for
\* null), up to `await getCourseLessons` in fetchLessons
HandleLessonSuccess(about, reqs) ==
    IF access_token = NoToken
    THEN net' = reqs
    ELSE net' = Issue(reqs, LessonsRequest("handleLessonSuccess", about, 0))

\* onSuccess(savedLesson); onClose(); and the finally of handleSubmit
SavedAndClosed(about, reqs) ==
    /\ HandleLessonSuccess(about, reqs)
    /\ OnCloseLessonModal
    /\ lessonLoading' = FALSE

\* a file is uploaded for the types video and file
Uploads(type, file) == file # NoFile /\ type \in {"video", "file"}

\* LessonModal.handleSubmit after `await createLesson / updateLesson`: the
\* backend has answered with `status`; on success it has stored the lesson,
\* and the file selected is uploaded or the modal reports success and closes
LessonSaved(r, status) ==
    /\ BagIn(r, net) /\ r.api \in {"createLesson", "updateLesson"}
    /\ Ok(status) =>
          IF r.lesson_id = 0
          THEN Len(srvLessons) < MaxLessons /\ srvLastId < MaxLessonId
          ELSE Position(srvLessons, r.lesson_id) # 0
    /\ response' = Answer(r, status)
    /\ IF Ok(status)
       THEN LET saved == IF r.lesson_id = 0 THEN srvLastId + 1
                         ELSE r.lesson_id
            IN  /\ srvLastId' = IF r.lesson_id = 0 THEN saved ELSE srvLastId
                /\ srvLessons' =
                      IF r.lesson_id = 0
                      THEN Append(srvLessons, Lesson(saved, r.order, r.type))
                      ELSE [srvLessons EXCEPT
                              ![Position(srvLessons, saved)] =
                                  Lesson(saved, r.order, r.type)]
                /\ IF Uploads(r.type, r.file)
                   THEN /\ net' = Issue(Settle(net, r),
                               UploadRequest(saved, r.type, r.file, r.lesson_id))
                        /\ UNCHANGED <<showLessonModal, editingLesson,
                                       lessonModalVars>>
                   ELSE SavedAndClosed(r.lesson_id, Settle(net, r))
       ELSE /\ net' = Settle(net, r)
            /\ lessonError' = "save failed"
            /\ lessonLoading' = FALSE
            /\ UNCHANGED <<showLessonModal, editingLesson, lessonType,
                           lessonOrder, lessonFile, srvLessons, srvLastId>>
    /\ UNCHANGED <<outsideCourse, lessons, selectedLesson, courseLoading,
                   courseError, deleteConfirmLesson, deleting, fetching>>

\* LessonModal.handleSubmit after `await uploadLessonFile`
UploadSettled(r, status) ==
    /\ BagIn(r, net) /\ r.api = "uploadLessonFile"
    /\ response' = Answer(r, status)
    /\ IF Ok(status)
       THEN SavedAndClosed(r.about, Settle(net, r))
       ELSE /\ net' = Settle(net, r)
            /\ lessonError' = "upload failed"
            /\ lessonLoading' = FALSE
            /\ UNCHANGED <<showLessonModal, editingLesson, lessonType,
                           lessonOrder, lessonFile>>
    /\ UNCHANGED <<outsideCourse, lessons, selectedLesson, courseLoading,
                   courseError, deleteConfirmLesson, deleting, fetching,
                   srvLessons, srvLastId>>

\* the delete button of the selected lesson: setDeleteConfirmLesson
OpenDeleteConfirm ==
    /\ CourseRendered /\ NoOverlay
    /\ selectedLesson # NoLesson
    /\ deleteConfirmLesson' = selectedLesson
    /\ UNCHANGED <<outsideCourse, net, response, lessons, selectedLesson,
                   courseLoading, courseError, showLessonModal, editingLesson,
                   deleting, fetching, lessonModalVars, srvLessons, srvLastId>>

\* the backdrop and the cancel button of the delete confirmation
CancelDelete ==
    /\ CourseRendered /\ deleteConfirmLesson # NoLesson
    /\ deleteConfirmLesson' = NoLesson
    /\ UNCHANGED <<outsideCourse, net, response, lessons, selectedLesson,
                   courseLoading, courseError, showLessonModal, editingLesson,
                   deleting, fetching, lessonModalVars, srvLessons, srvLastId>>

\* handleDeleteLesson up to `await deleteLesson` (button: disabled={deleting})
HandleDeleteLesson ==
    /\ CourseRendered /\ deleteConfirmLesson # NoLesson
    /\ ~deleting
    /\ access_token # NoToken
    /\ deleting' = TRUE
    /\ net' = Issue(net, DeleteRequest(deleteConfirmLesson.id,
                                       selectedLesson.id))
    /\ UNCHANGED <<outsideCourse, response, lessons, selectedLesson,
                   courseLoading, courseError, showLessonModal, editingLesson,
                   deleteConfirmLesson, fetching, lessonModalVars, srvLessons,
                   srvLastId>>

\* handleDeleteLesson after `await deleteLesson`: on success the backend has
\* removed the lesson and fetchLessons is called; on failure catch and finally
DeleteSettled(r, status) ==
    /\ BagIn(r, net) /\ r.api = "deleteLesson"
    /\ Ok(status) => Position(srvLessons, r.lesson_id) # 0
    /\ response' = Answer(r, status)
    /\ IF Ok(status)
       THEN /\ srvLessons' = Without(srvLessons, r.lesson_id)
            /\ net' = Issue(Settle(net, r),
                     LessonsRequest("handleDeleteLesson", r.lesson_id,
                                    r.selected))
            /\ UNCHANGED deleting
       ELSE /\ net' = Settle(net, r)
            /\ deleting' = FALSE
            /\ UNCHANGED srvLessons
    /\ UNCHANGED <<outsideCourse, lessons, selectedLesson, courseLoading,
                   courseError, showLessonModal, editingLesson,
                   deleteConfirmLesson, fetching, lessonModalVars, srvLastId>>

\* CoursePage has not been mounted
CourseIdle ==
    /\ lessons = <<>>
    /\ selectedLesson = NoLesson
    /\ courseLoading = TRUE
    /\ courseError = NoError
    /\ showLessonModal = FALSE
    /\ editingLesson = NoLesson
    /\ deleteConfirmLesson = NoLesson
    /\ deleting = FALSE
    /\ fetching = NoCall
    /\ lessonType = "text"
    /\ lessonOrder = InitialOrder
    /\ lessonFile = NoFile
    /\ lessonLoading = FALSE
    /\ lessonError = NoError

(***************************************************************************)
(* The API wrappers: what each throws for the response it received.        *)
(***************************************************************************)
\* the wrappers that read the body of a non-2xx response:
\* `const error = await response.json().catch(() => ({ detail: generic }))`,
\* `throw new Error(error.detail || generic)`
ReadsDetail ==
    {"login", "register",
     "createCourse", "updateCourse", "deleteCourse", "getCourseStudents",
     "createAssignment", "updateAssignment",
     "createLesson", "updateLesson", "uploadLessonFile",
     "getPendingSubmissions", "gradeSubmission", "returnSubmission",
     "getSubmissionComments", "addSubmissionComment", "updateGrade"}

\* the wrappers with `if (!response.ok) throw new Error(generic)`
GenericOnly ==
    {"getCurrentUser",
     "getFeaturedCourses", "getMyCourses", "getCourseProgress", "getCourse",
     "getLessonAssignments", "getAssignment", "deleteAssignment",
     "getCourseLessons", "getLesson", "deleteLesson", "reorderLessons"}

Wrappers == ReadsDetail \cup GenericOnly

\* the body of a response: none, one that is not JSON, or a JSON object
\* without `detail`, with an empty one, with one that says something
Bodies ==
    {[kind |-> "missing"], [kind |-> "unparsable"], [kind |-> "json"],
     [kind |-> "json", detail |-> <<>>],
     [kind |-> "json", detail |-> <<"server says">>]}

WrapperStatuses == {200, 400, 401, 404, 500}

\* what a wrapper throws: nothing, or an Error with the message of
\* handleUnauthorized, with the wrapper's generic message, or with the detail
\* of the body (texts are sequences, the empty text is <<>>)
NothingThrown == <<"nothing">>
SessionExpired == <<"session expired">>
Generic(api) == <<"generic", api>>

\* the object the catch of response.json() puts in the place of the body:
\* {} in login and register, { detail: generic } in the others
Fallback(api) ==
    IF api \in {"login", "register"} THEN [kind |-> "json"]
    ELSE [kind |-> "json", detail |-> Generic(api)]

\* the wrapper has not returned
Pending == <<"pending">>

\* response.json().catch(() => fallback)
JsonOr(body, fallback) == IF body.kind = "json" THEN body ELSE fallback

\* what the wrapper `api` throws for a response with `status` and `body`
Thrown(api, status, body) ==
    IF Unauthorized(api, status) THEN SessionExpired
    ELSE IF Ok(status) THEN NothingThrown
    ELSE IF api \in ReadsDetail
         THEN LET parsed == JsonOr(body, Fallback(api))
              IN  IF "detail" \in DOMAIN parsed /\ parsed.detail # <<>>
                  THEN parsed.detail
                  ELSE Generic(api)
         ELSE Generic(api)

\* the wrapper returns or throws
WrapperSettles ==
    /\ thrown = Pending
    /\ thrown' = Thrown(called.api, called.status, called.body)
    /\ UNCHANGED <<browserVars, appVars, landingVars, net, response,
                   reviewVars, commentVars, dashVars, courseVars, called>>

\* no wrapper is observed
WrappersIdle ==
    /\ called = [api |-> "null", status |-> 0, body |-> [kind |-> "missing"]]
    /\ thrown = NothingThrown

\* no page below the session layer has been used
PagesIdle ==
    /\ CommentsIdle
    /\ srvComments = [i \in SubmissionIds |-> <<>>]
    /\ DashboardIdle
    /\ srvItems = <<>>
    /\ CourseIdle
    /\ srvLessons = <<>>
    /\ srvLastId = 0
    /\ WrappersIdle

(***************************************************************************)
(* Session specification.                                                  *)
(***************************************************************************)
SessionInit ==
    /\ \E stored \in StoredSessions :
          /\ access_token = stored.access_token
          /\ refresh_token = stored.refresh_token
          /\ net = StartupRequests(stored.access_token)
          /\ appLoading = (stored.access_token # NoToken)
    /\ path \in Paths
    /\ navPending = FALSE
    /\ user = NoUser
    /\ response = NoResponse
    /\ modal = NoModal
    /\ loginLoading = FALSE
    /\ loginError = ""
    /\ regLoading = FALSE
    /\ regError = ""
    \* AssignmentsPage is not on screen
    /\ submissions = <<>>
    /\ loading = TRUE
    /\ error = NoError
    /\ statusFilter = "submitted"
    /\ gradingSubmission = NoSubmission
    /\ score = <<>>
    /\ feedback = ""
    /\ grading = FALSE
    /\ gradeError = NoError
    /\ validationMessage = FALSE
    /\ returningSubmission = NoSubmission
    /\ returnFeedback = ""
    /\ returning = FALSE
    /\ srvStatus = [i \in SubmissionIds |-> "submitted"]
    /\ PagesIdle

SessionNext ==
    \/ \E m \in {"login", "register"} : OpenModal(m)
    \/ CloseModal
    \/ \E e \in Emails : LoginSubmit(e)
    \/ \E e \in Emails, pw \in Passwords, cp \in Passwords : RegisterSubmit(e, pw, cp)
    \/ \E r \in InFlight, st \in Statuses, u \in Users \cup {NoUser} :
          RegisterSettled(r, st, u)
    \/ \E r \in InFlight, st \in Statuses, a \in AuthResponses \cup {NoAuth} :
          LoginSettled(r, st, a)
    \/ \E r \in InFlight, st \in Statuses, u \in Users \cup {NoUser} :
          StartupSettled(r, st, u)
    \/ \E r \in InFlight, st \in Statuses, u \in Users \cup {NoUser} :
          AuthSuccessSettled(r, st, u)
    \/ HandleLogout
    \/ \E p \in Paths : OpenPage(p)
    \/ BackToDashboard
    \/ FollowHomeLink
    \/ PageReload

SessionSpec == SessionInit /\ [][SessionNext]_vars

(***************************************************************************)
(* Specifications of the review page: a signed-in teacher on /assignments. *)
(*   ReviewSpec    - the grade and the return flow together                *)
(*   GradeSpec     - the grade flow with the filter tabs and the feedback  *)
(*   ReturnSpec    - the return flow with the filter tabs and the feedback *)
(*   GradeFormSpec - one submit of the grading form for every score text   *)
(***************************************************************************)
\* the scores typed outside GradeFormSpec
ReviewScores == {<<"1">>}
\* the filter tabs clicked
ReviewFilters == {"submitted", "all"}
\* the answers of the backend: 2xx, and 401 for every failure (no wrapper of
\* submissions.ts looks at the status beyond response.ok)
ReviewStatuses == {200, 401}

SignedIn ==
    /\ access_token = "acc1" /\ refresh_token = "ref1"
    /\ path = "/assignments" /\ navPending = FALSE
    /\ user = "teacher1" /\ appLoading = FALSE
    /\ modal = NoModal
    /\ loginLoading = FALSE /\ loginError = ""
    /\ regLoading = FALSE /\ regError = ""
    /\ response = NoResponse

ModalsClosed ==
    /\ gradingSubmission = NoSubmission
    /\ score = <<>>
    /\ feedback = ""
    /\ grading = FALSE
    /\ gradeError = NoError
    /\ validationMessage = FALSE
    /\ returningSubmission = NoSubmission
    /\ returnFeedback = ""
    /\ returning = FALSE

\* AssignmentsPage has mounted and its effect has called loadSubmissions();
\* the backend holds the submissions ids, all waiting for review
AssignmentsMounted(ids) ==
    /\ SignedIn
    /\ net = SetToBag({LoadRequest("submitted")})
    /\ submissions = <<>>
    /\ loading = TRUE
    /\ error = NoError
    /\ statusFilter = "submitted"
    /\ ModalsClosed
    /\ srvStatus = [i \in ids |-> "submitted"]
    /\ PagesIdle

ReviewInit == AssignmentsMounted({1})

ReviewNext ==
    \/ \E r \in InFlight, st \in ReviewStatuses : ListAnswer(r, st)
    \/ \E r \in InFlight, st \in ReviewStatuses : MutationAnswer(r, st)
    \/ \E i \in DOMAIN srvStatus : Resubmit(i)
    \/ SetStatusFilter("all")
    \/ \E r \in InFlight : LoadSettled(r)
    \/ DismissError
    \/ \E s \in Rows(submissions) : OpenGrade(s)
    \/ CloseGrade
    \/ \E t \in ReviewScores : SetScore(t)
    \/ SubmitGrade
    \/ \E r \in InFlight : GradeSettled(r)
    \/ \E s \in Rows(submissions) : OpenReturn(s)
    \/ CloseReturn
    \/ HandleReturn
    \/ \E r \in InFlight : ReturnSettled(r)

ReviewSpec == ReviewInit /\ [][ReviewNext]_vars

GradeInit == AssignmentsMounted(SubmissionIds)

GradeNext ==
    \/ \E r \in InFlight, st \in ReviewStatuses : ListAnswer(r, st)
    \/ \E r \in InFlight, st \in ReviewStatuses : MutationAnswer(r, st)
    \/ \E f \in ReviewFilters : SetStatusFilter(f)
    \/ \E r \in InFlight : LoadSettled(r)
    \/ DismissError
    \/ \E s \in Rows(submissions) : OpenGrade(s)
    \/ CloseGrade
    \/ \E t \in ReviewScores : SetScore(t)
    \/ \E f \in Feedbacks : SetFeedback(f)
    \/ SubmitGrade
    \/ \E r \in InFlight : GradeSettled(r)

GradeSpec == GradeInit /\ [][GradeNext]_vars

ReturnInit == AssignmentsMounted({1})

ReturnNext ==
    \/ \E r \in InFlight, st \in ReviewStatuses : ListAnswer(r, st)
    \/ \E r \in InFlight, st \in ReviewStatuses : MutationAnswer(r, st)
    \/ \E i \in DOMAIN srvStatus : Resubmit(i)
    \/ \E f \in ReviewFilters : SetStatusFilter(f)
    \/ \E r \in InFlight : LoadSettled(r)
    \/ DismissError
    \/ \E s \in Rows(submissions) : OpenReturn(s)
    \/ CloseReturn
    \/ \E f \in Feedbacks : SetReturnFeedback(f)
    \/ HandleReturn
    \/ \E r \in InFlight : ReturnSettled(r)

ReturnSpec == ReturnInit /\ [][ReturnNext]_vars

\* the list has loaded, the grading modal is open on one of its rows and a
\* text has been typed into the score field
GradeFormInit ==
    /\ SignedIn
    /\ net = EmptyBag
    /\ srvStatus = [i \in SubmissionIds |-> "submitted"]
    /\ submissions = ListItems("submitted", srvStatus)
    /\ loading = FALSE
    /\ error = NoError
    /\ statusFilter = "submitted"
    /\ gradingSubmission \in Rows(submissions)
    /\ \E t \in Texts : score = Sanitize(t)
    /\ feedback = ""
    /\ grading = FALSE
    /\ gradeError = NoError
    /\ validationMessage = FALSE
    /\ returningSubmission = NoSubmission
    /\ returnFeedback = ""
    /\ returning = FALSE
    /\ PagesIdle

GradeFormNext ==
    \/ SubmitGrade
    \/ \E r \in InFlight, st \in ReviewStatuses : MutationAnswer(r, st)
    \/ \E r \in InFlight : GradeSettled(r)
    \/ \E r \in InFlight, st \in ReviewStatuses : ListAnswer(r, st)
    \/ \E r \in InFlight : LoadSettled(r)
    \/ CloseGrade

GradeFormSpec == GradeFormInit /\ [][GradeFormNext]_vars

(***************************************************************************)
(* Specification of the comments modal: a signed-in teacher on             *)
(* /assignments, the list loaded.                                          *)
(***************************************************************************)
\* the list of the submissions ids, all waiting for review and none
\* commented, has loaded under the filter f and no modal has been opened
ListLoaded(f, ids) ==
    /\ SignedIn
    /\ net = EmptyBag
    /\ srvStatus = [i \in ids |-> "submitted"]
    /\ submissions = ListItems(f, srvStatus)
    /\ loading = FALSE
    /\ error = NoError
    /\ statusFilter = f
    /\ ModalsClosed
    /\ CommentsIdle
    /\ srvComments = [i \in ids |-> <<>>]
    /\ DashboardIdle
    /\ srvItems = <<>>
    /\ CourseIdle
    /\ srvLessons = <<>>
    /\ srvLastId = 0
    /\ WrappersIdle

ListLoadedUnder(f) == ListLoaded(f, {1})

CommentsInit == ListLoadedUnder("submitted")

CommentsNext ==
    \/ \E s \in Rows(submissions) : LoadComments(s)
    \/ \E r \in InFlight, st \in CommentStatuses : CommentsAnswer(r, st)
    \/ \E r \in InFlight : CommentsSettled(r)
    \/ CloseComments
    \/ \E t \in CommentTexts : SetNewComment(t)
    \/ \E key \in {"button", "Enter"} : HandleAddComment(key)
    \/ \E r \in InFlight, st \in AddCommentStatuses : AddCommentAnswer(r, st)
    \/ \E r \in InFlight : AddCommentSettled(r)
    \/ DismissError

CommentsSpec == CommentsInit /\ [][CommentsNext]_vars

\* the comments modal over a list of several submissions
ThreadsInit == ListLoaded("submitted", SubmissionIds)

ThreadsSpec == ThreadsInit /\ [][CommentsNext]_vars

(***************************************************************************)
(* Specifications of the dashboard: a signed-in teacher on /dashboard.     *)
(*   DashboardSpec  - pagination over a list the backend may change        *)
(*   ProjectionSpec - the projection of the items of every short response  *)
(***************************************************************************)
\* the answers of the backend to the dashboard's requests
DashStatuses == {200, 401, 500}

\* Dashboard has mounted and its effect has called fetchCourses(); the
\* backend lists `items` for the user
DashboardMountedWith(items) ==
    /\ access_token = "acc1" /\ refresh_token = "ref1"
    /\ path = "/dashboard" /\ navPending = FALSE
    /\ user = "teacher1" /\ appLoading = FALSE
    /\ modal = NoModal
    /\ loginLoading = FALSE /\ loginError = ""
    /\ regLoading = FALSE /\ regError = ""
    /\ response = NoResponse
    /\ submissions = <<>> /\ loading = TRUE /\ error = NoError
    /\ statusFilter = "submitted"
    /\ ModalsClosed
    /\ srvStatus = [i \in SubmissionIds |-> "submitted"]
    /\ CommentsIdle
    /\ srvComments = [i \in SubmissionIds |-> <<>>]
    /\ DashboardIdle
    /\ net = SetToBag({CoursesRequest(0, InitialPerPage)})
    /\ srvItems = items
    /\ CourseIdle
    /\ srvLessons = <<>>
    /\ srvLastId = 0
    /\ WrappersIdle

DashboardInit ==
    DashboardMountedWith([k \in 1..MaxCourses |-> CatalogueCourse(k)])

DashboardNext ==
    \/ FirstPage
    \/ PrevPage
    \/ \E page \in 1..MaxPageButtons : GoToPage(page)
    \/ NextPage
    \/ LastPage
    \/ \E option \in PER_PAGE_OPTIONS : HandlePerPageChange(option)
    \/ OpenCreateModal
    \/ CloseCreateModal
    \/ CreateCourseSubmit
    \/ \E r \in InFlight, st \in DashStatuses : CreateCourseSettled(r, st)
    \/ \E r \in InFlight, st \in DashStatuses : CoursesSettled(r, st)
    \/ CourseRemoved

\* The projection, applied to every list of at most MaxItems enrollments and
\* courses the backend may hold for the user.
ListedItems ==
    {Enrollment(10 + c, c, p) : c \in 1..2, p \in {0, 50}}
    \cup {Course(c, st) : c \in 1..2, st \in {"", "draft", "published"}}

ProjectionInit ==
    \E items \in UNION {[1..n -> ListedItems] : n \in 0..MaxItems} :
       DashboardMountedWith(items)

ProjectionNext ==
    \/ \E r \in InFlight, st \in DashStatuses : CoursesSettled(r, st)
    \/ \E option \in PER_PAGE_OPTIONS : HandlePerPageChange(option)
    \/ CourseRemoved

ProjectionSpec == ProjectionInit /\ [][ProjectionNext]_vars

DashboardSpec == DashboardInit /\ [][DashboardNext]_vars

(***************************************************************************)
(* Properties of the API client.                                           *)
(***************************************************************************)
\* the answered requests whose handler continues in this step
Settled == {r \in InFlight : Answered(r) /\ CopiesIn(r, net') < CopiesIn(r, net)}

\* C1: whenever a wrapper receives a 401 answer, whichever endpoint it
\* called, both tokens are removed from local storage and the navigation to
\* `/` is started.
C1_UnauthorizedAnywhere ==
    [][\A r \in Settled :
          r.status = 401 =>
             /\ access_token' = NoToken /\ refresh_token' = NoToken
             /\ navPending']_vars

(***************************************************************************)
(* Properties of the grading form.                                         *)
(***************************************************************************)
\* the text holds a number below zero
Negative(t) == ParseFloat(t).valid /\ ParseFloat(t).neg /\ ParseFloat(t).mantissa # 0

DigitChar(d) == IF d = 1 THEN "1" ELSE "0"

\* the decimal numeral of n
RECURSIVE Numeral(_)
Numeral(n) ==
    IF n < 10 THEN <<DigitChar(n)>>
    ELSE Append(Numeral(n \div 10), DigitChar(n % 10))

\* the grade requests issued in this step
GradeIssued ==
    {r \in Issued(net, net') : r.api = "gradeSubmission" /\ Sent(r)}

\* the return requests issued in this step
ReturnIssued ==
    {r \in Issued(net, net') : r.api = "returnSubmission" /\ Sent(r)}

\* the step submits the grading form: the form is on screen with its submit
\* button enabled, and the step is the browser's or handleGrade's reaction
FormSubmitted ==
    /\ PageRendered /\ gradingSubmission # NoSubmission
    /\ ~grading /\ score # <<>>
    /\ UNCHANGED <<gradingSubmission, score>>
    /\ \/ validationMessage' # validationMessage
       \/ gradeError' # gradeError
       \/ grading' # grading

\* an error is shown on the grading form: the inline grade error, or the
\* browser's validation message on the score field
InlineErrorShown == gradeError # NoError \/ validationMessage

C6_ScoreWithinMax ==
    /\ [](\A r \in InFlight :
             r.api = "gradeSubmission" =>
                r.body.score \in 0..r.submission.max_score)
    /\ [][FormSubmitted /\ ~parseInt(score).isNaN
            /\ parseInt(score).value > gradingSubmission.max_score =>
               GradeIssued = {} /\ InlineErrorShown']_vars

(***************************************************************************)
(* Properties of the review page.                                          *)
(***************************************************************************)
\* C7: when a grade request settles with a 2xx answer the grading modal is
\* closed, score and feedback are reset and exactly one list request is
\* issued, for the status filter selected at that moment; when it settles
\* with another answer no request is issued, the modal is left as it is and
\* the inline grade error is set.
C7_GradeSettles ==
    [][\A r \in Settled :
          r.api = "gradeSubmission" =>
             IF Ok(r.status)
             THEN /\ gradingSubmission' = NoSubmission
                  /\ score' = <<>> /\ feedback' = ""
                  /\ Issued(net, net') = {LoadRequest(statusFilter)}
                  /\ statusFilter' = statusFilter
             ELSE /\ Issued(net, net') = {}
                  /\ gradingSubmission' = gradingSubmission
                  /\ gradeError' # NoError]_vars

C9_GradedTerminal ==
    [][/\ gradingSubmission' \notin {gradingSubmission, NoSubmission} =>
             gradingSubmission'.status # "graded"
       /\ returningSubmission' \notin {returningSubmission, NoSubmission} =>
             returningSubmission'.status # "graded"
       /\ \A r \in GradeIssued \cup ReturnIssued :
             \A row \in Rows(submissions) :
                row.submission_id = r.submission.submission_id =>
                   row.status # "graded"
      ]_vars

\* C10: the body of a return request has the feedback as its only member,
\* the text of the return modal (left out when that text is empty); when a return request settles with a 2xx
\* answer the return modal is closed, its feedback reset and exactly one
\* request, a list request, is issued; when it settles with another answer
\* no request is issued and the displayed list stays as it is.
C10_ReturnSettles ==
    /\ [](\A r \in InFlight :
             r.api = "returnSubmission" => DOMAIN r.body = {"feedback"})
    /\ [][/\ \A r \in ReturnIssued :
                r.body.feedback = OrUndefined(returnFeedback)
          /\ \A r \in Settled :
                r.api = "returnSubmission" =>
                   IF Ok(r.status)
                   THEN /\ returningSubmission' = NoSubmission
                        /\ returnFeedback' = ""
                        /\ \E l \in Issued(net, net') :
                              /\ l.api = "getPendingSubmissions"
                              /\ Issued(net, net') = {l}
                        /\ BagCardinality(net') = BagCardinality(net)
                   ELSE /\ Issued(net, net') = {}
                        /\ BagCardinality(net') = BagCardinality(net) - 1
                        /\ submissions' = submissions
         ]_vars

\* C10 witness: the backend has recorded the return, its request has
\* settled, the modal is closed with the feedback reset and a list request
\* is on its way
C10_Returned ==
    /\ \E i \in DOMAIN srvStatus : srvStatus[i] = "returned"
    /\ \A r \in InFlight : r.api # "returnSubmission"
    /\ returningSubmission = NoSubmission /\ returnFeedback = "" /\ ~returning
    /\ error = NoError /\ loading
    /\ \E l \in InFlight : l.api = "getPendingSubmissions" /\ Sent(l)

(***************************************************************************)
(* Properties of the comments modal.                                       *)
(***************************************************************************)
\* C11: when a comment fetch settles with a failure (rejected fetch or
\* non-2xx answer) the comment list becomes empty, the page's error is left
\* as it was, loadingComments becomes false, and the modal, the comment text
\* and addingComment, on which the send button depends, are left as they
\* were.
C11_CommentFetchFails ==
    [][\A r \in Settled :
          r.api = "getSubmissionComments" /\ ~Ok(r.status) =>
             /\ comments' = <<>>
             /\ error' = error
             /\ loadingComments' = FALSE
             /\ viewingComments' = viewingComments
             /\ AddCommentEnabled' = AddCommentEnabled
             /\ Issued(net, net') = {}]_vars

\* C11 witness: the fetch of a thread that holds a comment was rejected: the
\* modal shows an empty thread, no banner, and the send button is enabled
C11_EmptyThreadShown ==
    /\ response.api = "getSubmissionComments" /\ response.status = 0
    /\ viewingComments # NoSubmission
    /\ srvComments[viewingComments.submission_id] # <<>>
    /\ comments = <<>> /\ ~loadingComments /\ error = NoError
    /\ AddCommentEnabled

\* C12: every comment of the in-memory list is one the backend has stored;
\* issuing an add-comment request leaves the list as it is, so does a
\* request that settles with a failure; a request that settles with a 2xx
\* answer leaves a list whose last element is the comment the server
\* returned; and the list changes in no step other than the settling of a
\* comment request.
C12_AppendAfterAck ==
    /\ [](\A k \in 1..Len(comments) : comments[k] \in Stored(srvComments))
    /\ [][/\ \A r \in Settled :
                r.api = "addSubmissionComment" =>
                   IF Ok(r.status)
                   THEN /\ comments' # <<>>
                        /\ comments'[Len(comments')] = r.comment
                        /\ r.comment \in Stored(srvComments)
                   ELSE comments' = comments
          /\ comments' # comments =>
                \E r \in Settled :
                   r.api \in {"addSubmissionComment", "getSubmissionComments"}
         ]_vars

\* C12 witness: an add-comment request has been acknowledged and has
\* settled: the list ends with the stored comment, the field is empty
C12_CommentAppended ==
    /\ response.api = "addSubmissionComment" /\ Ok(response.status)
    /\ comments # <<>> /\ comments[Len(comments)] \in Stored(srvComments)
    /\ newComment = <<>> /\ ~addingComment

(***************************************************************************)
(* Course page specifications.                                             *)
(***************************************************************************)
CourseStatuses == {200, 500}

\* CoursePage has mounted on /courses/1 and its effect has called getCourse;
\* the backend holds `held` for the course and has given out the lesson ids
\* up to lastId
CourseMountedFrom(held, lastId) ==
    /\ access_token = "acc1" /\ refresh_token = "ref1"
    /\ path = "/courses/1" /\ navPending = FALSE
    /\ user = "teacher1" /\ appLoading = FALSE
    /\ modal = NoModal
    /\ loginLoading = FALSE /\ loginError = ""
    /\ regLoading = FALSE /\ regError = ""
    /\ response = NoResponse
    /\ submissions = <<>> /\ loading = TRUE /\ error = NoError
    /\ statusFilter = "submitted"
    /\ ModalsClosed
    /\ srvStatus = [i \in SubmissionIds |-> "submitted"]
    /\ CommentsIdle
    /\ srvComments = [i \in SubmissionIds |-> <<>>]
    /\ DashboardIdle
    /\ srvItems = <<>>
    /\ CourseIdle
    /\ net = SetToBag({CourseRequest})
    /\ srvLessons = held
    /\ srvLastId = lastId
    /\ WrappersIdle

\* the ids given out so far leave one id for a new lesson
CourseMountedWith(held) == CourseMountedFrom(held, MaxLessonId - 1)

\* the lists of at most MaxLessons lessons the backend may hold, the ids in
\* the order it gave them out, every lesson with any of the orders
HeldLessons ==
    UNION {{[k \in 1..n |-> Lesson(k, orders[k], "text")] :
               orders \in [1..n -> LessonOrders]} : n \in 0..MaxLessons}

\* the lists of at most MaxLessons lessons with different ids, in any order
ListedLessons ==
    {held \in UNION {[1..n -> {Lesson(id, order, "text") :
                                  id \in 1..(MaxLessonId - 1),
                                  order \in LessonOrders}]
                     : n \in 0..MaxLessons} :
        \A j, k \in 1..Len(held) : j # k => held[j].id # held[k].id}

\* fetchLessons as the mount effect calls it, on every list of ListedLessons
\* and with every outcome of each request.
FetchLessonsInit == \E held \in ListedLessons : CourseMountedWith(held)

FetchLessonsNext ==
    \/ \E r \in InFlight, st \in CourseStatuses : CourseSettled(r, st)
    \/ \E r \in InFlight, st \in CourseStatuses : LessonsSettled(r, st)
    \/ \E r \in InFlight, st \in CourseStatuses : AssignmentsSettled(r, st)
    \/ Quiet /\ \E k \in 1..MaxLessons : HandleSelectLesson(k)

FetchLessonsSpec == FetchLessonsInit /\ [][FetchLessonsNext]_vars

\* The lesson list: fetched, shown, a lesson selected, edited in its order,
\* added and deleted.  The user acts when the page is quiet; the assignments
\* of every lesson are fetched without failure.
LessonsInit == \E held \in HeldLessons : CourseMountedWith(held)

LessonsUser ==
    \/ \E k \in 1..MaxLessons : HandleSelectLesson(k)
    \/ OpenNewLessonModal
    \/ OpenEditLessonModal
    \/ CloseLessonModal
    \/ \E order \in LessonOrders : SetOrder(order)
    \/ LessonSubmit
    \/ OpenDeleteConfirm
    \/ CancelDelete
    \/ HandleDeleteLesson

LessonsNext ==
    \/ Quiet /\ LessonsUser
    \/ \E r \in InFlight, st \in CourseStatuses : CourseSettled(r, st)
    \/ \E r \in InFlight, st \in CourseStatuses : LessonsSettled(r, st)
    \/ \E r \in InFlight : AssignmentsSettled(r, 200)
    \/ \E r \in InFlight, st \in CourseStatuses : LessonSaved(r, st)
    \/ \E r \in InFlight, st \in CourseStatuses : DeleteSettled(r, st)

LessonsSpec == LessonsInit /\ [][LessonsNext]_vars

\* The lesson modal with its type buttons and file input, on a course of one
\* lesson.  The user acts when the page is quiet.
LessonModalInit == CourseMountedWith(<<Lesson(1, 1, "text")>>)

LessonModalUser ==
    \/ OpenNewLessonModal
    \/ OpenEditLessonModal
    \/ CloseLessonModal
    \/ \E type \in LessonTypes : SetType(type)
    \/ \E mime \in MimeTypes : HandleFileChange(mime)
    \/ LessonSubmit

LessonModalNext ==
    \/ Quiet /\ LessonModalUser
    \/ \E r \in InFlight, st \in CourseStatuses : CourseSettled(r, st)
    \/ \E r \in InFlight, st \in CourseStatuses : LessonsSettled(r, st)
    \/ \E r \in InFlight, st \in CourseStatuses : AssignmentsSettled(r, st)
    \/ \E r \in InFlight, st \in CourseStatuses : LessonSaved(r, st)
    \/ \E r \in InFlight, st \in CourseStatuses : UploadSettled(r, st)

LessonModalSpec == LessonModalInit /\ [][LessonModalNext]_vars

\* The lesson modal on a course without lessons, the backend with room for
\* MaxLessons new lessons.
UploadRetryInit == CourseMountedFrom(<<>>, MaxLessonId - MaxLessons)

UploadRetrySpec == UploadRetryInit /\ [][LessonModalNext]_vars

\* The lesson list of a course of two lessons, the user acting at any time:
\* also while a save, a delete or a list refresh is in flight, as long as
\* fewer than MaxInFlight requests are.  The assignments of every lesson are
\* fetched without failure.
CourseRaceInit == CourseMountedWith(<<Lesson(1, 1, "text"), Lesson(2, 2, "text")>>)

CourseRaceNext ==
    \/ \E k \in 1..MaxLessons : HandleSelectLesson(k)
    \/ OpenNewLessonModal
    \/ OpenEditLessonModal
    \/ CloseLessonModal
    \/ CanIssue /\ LessonSubmit
    \/ OpenDeleteConfirm
    \/ CancelDelete
    \/ CanIssue /\ HandleDeleteLesson
    \/ \E r \in InFlight, st \in CourseStatuses : CourseSettled(r, st)
    \/ \E r \in InFlight, st \in CourseStatuses : LessonsSettled(r, st)
    \/ \E r \in InFlight : AssignmentsSettled(r, 200)
    \/ \E r \in InFlight, st \in CourseStatuses : LessonSaved(r, st)
    \/ \E r \in InFlight, st \in CourseStatuses : DeleteSettled(r, st)

CourseRaceSpec == CourseRaceInit /\ [][CourseRaceNext]_vars

(***************************************************************************)
(* The wrappers specification: every wrapper with every response.          *)
(***************************************************************************)
WrapperInit ==
    /\ access_token = "acc1" /\ refresh_token = "ref1"
    /\ path = "/dashboard" /\ navPending = FALSE
    /\ user = "teacher1" /\ appLoading = FALSE
    /\ modal = NoModal
    /\ loginLoading = FALSE /\ loginError = ""
    /\ regLoading = FALSE /\ regError = ""
    /\ net = EmptyBag /\ response = NoResponse
    /\ submissions = <<>> /\ loading = TRUE /\ error = NoError
    /\ statusFilter = "submitted"
    /\ ModalsClosed
    /\ srvStatus = [i \in SubmissionIds |-> "submitted"]
    /\ CommentsIdle
    /\ srvComments = [i \in SubmissionIds |-> <<>>]
    /\ DashboardIdle
    /\ srvItems = <<>>
    /\ CourseIdle
    /\ srvLessons = <<>>
    /\ srvLastId = 0
    /\ called \in [api : Wrappers, status : WrapperStatuses, body : Bodies]
    /\ thrown = Pending

WrapperNext == WrapperSettles

WrapperSpec == WrapperInit /\ [][WrapperNext]_vars

(***************************************************************************)
(* Specification of the loading and submitting flags: each page on its     *)
(* path, with the handlers that raise a flag and the answers to their      *)
(* requests; every request in flight is eventually answered and its        *)
(* handler continued.                                                      *)
(***************************************************************************)
FlagsInit ==
    \/ SessionInit /\ path = "/"
    \/ AssignmentsMounted({1})
    \/ ListLoadedUnder("all")
    \/ DashboardMountedWith(<<CatalogueCourse(1)>>)
    \/ LessonModalInit

\* the LandingPage's modals
FlagsSession ==
    \/ \E m \in {"login", "register"} : OpenModal(m)
    \/ \E e \in Emails : LoginSubmit(e)
    \/ \E e \in Emails : RegisterSubmit(e, "123456", "123456")
    \/ PageReload

\* grading and returning, the list under the filter `submitted`
FlagsReview ==
    \/ \E s \in Rows(submissions) : OpenGrade(s)
    \/ \E t \in ReviewScores : SetScore(t)
    \/ SubmitGrade
    \/ \E s \in Rows(submissions) : OpenReturn(s)
    \/ HandleReturn

\* the comment threads, the list under the filter `all`
FlagsComments ==
    \/ /\ viewingComments = NoSubmission      \* no overlay covers the rows
       /\ \E s \in Rows(submissions) : LoadComments(s)
    \/ CloseComments
    \/ SetNewComment(<<"a">>)
    \/ \E key \in {"button", "Enter"} : HandleAddComment(key)

FlagsDashboard ==
    \/ OpenCreateModal
    \/ CreateCourseSubmit

\* the course page's controls, used while it is quiet
FlagsCourse ==
    \/ OpenNewLessonModal
    \/ SetType("file")
    \/ HandleFileChange("application/pdf")
    \/ LessonSubmit
    \/ OpenDeleteConfirm
    \/ HandleDeleteLesson

\* The answers to the requests and the continuations of the handlers that
\* await them, by the name of the step.  The teacher's comment is the first
\* of its thread.
FlagsSettle(step) ==
    CASE step = "register settled" ->
           \E r \in InFlightOf("register"), st \in Statuses,
              u \in {"teacher1", NoUser} : RegisterSettled(r, st, u)
      [] step \in {"LoginModal", "RegisterModal"} ->
           \E r \in InFlightOf("login"), st \in Statuses,
              a \in AuthResponses \cup {NoAuth} :
              r.origin = step /\ LoginSettled(r, st, a)
      [] step = "startup settled" ->
           \E r \in InFlightOf("getCurrentUser"), st \in Statuses,
              u \in {"teacher1", NoUser} : StartupSettled(r, st, u)
      [] step = "handleAuthSuccess settled" ->
           \E r \in InFlightOf("getCurrentUser"), st \in Statuses,
              u \in {"teacher1", NoUser} : AuthSuccessSettled(r, st, u)
      [] step = "list answered" ->
           \E r \in InFlightOf("getPendingSubmissions"),
              st \in ReviewStatuses : ListAnswer(r, st)
      [] step = "list settled" ->
           \E r \in InFlightOf("getPendingSubmissions") : LoadSettled(r)
      [] step \in Mutations ->
           \E r \in InFlightOf(step), st \in ReviewStatuses :
              MutationAnswer(r, st)
      [] step = "grade settled" ->
           \E r \in InFlightOf("gradeSubmission") : GradeSettled(r)
      [] step = "return settled" ->
           \E r \in InFlightOf("returnSubmission") : ReturnSettled(r)
      [] step = "comments answered" ->
           \E r \in InFlightOf("getSubmissionComments"),
              st \in AddCommentStatuses : CommentsAnswer(r, st)
      [] step = "comments settled" ->
           \E r \in InFlightOf("getSubmissionComments") : CommentsSettled(r)
      [] step = "comment answered" ->
           \E r \in InFlightOf("addSubmissionComment"),
              st \in AddCommentStatuses :
              /\ Ok(st) => Stored(srvComments) = {}
              /\ AddCommentAnswer(r, st)
      [] step = "comment settled" ->
           \E r \in InFlightOf("addSubmissionComment") : AddCommentSettled(r)
      [] step = "create settled" ->
           \E r \in InFlightOf("createCourse"), st \in DashStatuses :
              CreateCourseSettled(r, st)
      [] step = "courses settled" ->
           \E r \in InFlightOf("getMyCourses"), st \in DashStatuses :
              CoursesSettled(r, st)
      [] step = "course settled" ->
           \E r \in InFlightOf("getCourse"), st \in CourseStatuses :
              CourseSettled(r, st)
      [] step = "lessons settled" ->
           \E r \in InFlightOf("getCourseLessons"), st \in CourseStatuses :
              LessonsSettled(r, st)
      [] step = "assignments settled" ->
           \E r \in InFlightOf("getLessonAssignments"),
              st \in CourseStatuses : AssignmentsSettled(r, st)
      [] step = "lesson saved" ->
           \E r \in InFlightOf("createLesson") \cup InFlightOf("updateLesson"),
              st \in CourseStatuses : LessonSaved(r, st)
      [] step = "upload settled" ->
           \E r \in InFlightOf("uploadLessonFile"), st \in CourseStatuses :
              UploadSettled(r, st)
      [] step = "delete settled" ->
           \E r \in InFlightOf("deleteLesson"), st \in CourseStatuses :
              DeleteSettled(r, st)

FlagsSteps ==
    {"register settled", "LoginModal", "RegisterModal", "startup settled",
     "handleAuthSuccess settled", "list answered", "list settled",
     "gradeSubmission", "returnSubmission", "grade settled", "return settled",
     "comments answered", "comments settled", "comment answered",
     "comment settled", "create settled", "courses settled", "course settled",
     "lessons settled", "assignments settled", "lesson saved",
     "upload settled", "delete settled"}

FlagsNext ==
    \/ path = "/" /\ FlagsSession
    \/ path = "/assignments" /\ statusFilter = "submitted" /\ FlagsReview
    \/ path = "/assignments" /\ statusFilter = "all" /\ FlagsComments
    \/ path = "/dashboard" /\ FlagsDashboard
    \/ path = "/courses/1" /\ Quiet /\ FlagsCourse
    \/ \E step \in FlagsSteps : FlagsSettle(step)

\* no request stays unanswered for ever (fetch settles), and the
\* continuation of a settled promise runs
FlagsFairness == \A step \in FlagsSteps : WF_vars(FlagsSettle(step))

FlagsSpec == FlagsInit /\ [][FlagsNext]_vars /\ FlagsFairness

(***************************************************************************)
(* Properties of the API wrappers.                                         *)
(***************************************************************************)
\* C20: for a non-2xx response a wrapper throws the server's detail when the
\* body is a JSON object with a non-empty detail, and its generic message
\* when the body is missing, is not JSON or has no detail.
C20_DetailCarried ==
    thrown # Pending /\ ~Ok(called.status) =>
       IF /\ called.body.kind = "json"
          /\ "detail" \in DOMAIN called.body
          /\ called.body.detail # <<>>
       THEN thrown = called.body.detail
       ELSE thrown = Generic(called.api)

(***************************************************************************)
(* Properties of the course page.                                          *)
(***************************************************************************)
\* the requests to `api` that settle in this step
Settling(api) ==
    {r \in InFlight : r.api = api /\ CopiesIn(r, net') < CopiesIn(r, net)}

\* the Promise.all of a call of fetchLessons resolves in this step, and the
\* call returns to its caller
FetchLessonsReturns == fetching # NoCall /\ fetching' = NoCall

\* C16: what fetchLessons returns holds every fetched lesson once and no
\* other, is non-decreasing in `order`, and keeps lessons of equal `order` in
\* their order in the server's response.
C16_SortedStable ==
    [][FetchLessonsReturns =>
         LET items == fetching.items
             result == lessons'
         IN  /\ Len(result) = Len(items)
             /\ \A k \in 1..Len(items) :
                   /\ Cardinality({j \in 1..Len(result) :
                                      result[j].id = items[k].id}) = 1
                   /\ \E j \in 1..Len(result) :
                         /\ result[j].id = items[k].id
                         /\ result[j].order = items[k].order
             /\ \A j \in 1..(Len(result) - 1) :
                   result[j].order <= result[j + 1].order
             /\ \A j, k \in 1..Len(items) :
                   j < k /\ items[j].order = items[k].order =>
                      Position(result, items[j].id)
                         < Position(result, items[k].id)
      ]_vars

\* the server listed a lesson of greater order first, and the list shown has
\* it last
C16_Reordered ==
    /\ Len(lessons) = 2 /\ Len(srvLessons) = 2
    /\ srvLessons[1].order > srvLessons[2].order
    /\ lessons[1].id = srvLessons[2].id
    /\ lessons[2].id = srvLessons[1].id

\* C17: a failed assignment fetch gives its lesson the empty list, a
\* successful one the assignments the server returned, and leaves the
\* results of the other lessons as they are; when the last has settled the
\* call returns every lesson with these assignments.  fetchLessons fails,
\* and the page shows the error, only when getCourseLessons fails.
C17_PartialFailure ==
    [][/\ \A r \in Settling("getLessonAssignments") :
             LET k == Position(fetching.items, r.lesson_id)
                 mine == IF Ok(response'.status)
                         THEN AssignmentsOf(r.lesson_id) ELSE <<>>
                 held(j) == IF j = k THEN mine
                            ELSE fetching.got[j].assignments
             IN  IF FetchLessonsReturns
                 THEN /\ Len(lessons') = Len(fetching.items)
                      /\ \A j \in 1..Len(fetching.items) :
                            LET at == Position(lessons', fetching.items[j].id)
                            IN  /\ at # 0
                                /\ lessons'[at].assignments = held(j)
                      /\ courseError' = NoError
                 ELSE /\ fetching' # NoCall
                      /\ \A j \in 1..Len(fetching.items) :
                            /\ fetching'.got[j].assignments = held(j)
                            /\ fetching'.got[j].done =
                                  (j = k \/ fetching.got[j].done)
                      /\ UNCHANGED <<lessons, courseError>>
       /\ \A r \in Settling("getCourseLessons") :
             ~Ok(response'.status) =>
                 /\ courseError' = "lessons not loaded"
                 /\ UNCHANGED <<lessons, fetching>>
       /\ courseError' # courseError =>
             /\ ~Ok(response'.status)
             /\ Settling("getCourse") \cup Settling("getCourseLessons") # {}
      ]_vars

\* the page shows a lesson whose assignments failed to load next to one
\* whose assignments loaded
C17_OneLessonWithout ==
    /\ CourseRendered
    /\ \E j, k \in 1..Len(lessons) :
          /\ lessons[j].assignments = <<>>
          /\ lessons[k].assignments = AssignmentsOf(lessons[k].id)

\* C18: the lesson numbers the course page shows are the 1-based positions
\* of the lessons in the sorted list: the k-th sidebar entry is numbered k,
\* and the header of the selected lesson carries the number of its sidebar
\* entry.
C18_PositionLabels ==
    [](CourseRendered =>
         /\ \A k \in 1..Len(lessons) :
               /\ SidebarLabel(k) = k
               /\ NumberCircle(k) = k
         /\ selectedLesson # NoLesson =>
               \E k \in 1..Len(lessons) :
                  /\ lessons[k].id = selectedLesson.id
                  /\ HeaderLabel = SidebarLabel(k))

\* C19: no uploadLessonFile request is issued for a lesson saved with type
\* `video` with a file whose MIME type is not one of the accepted video
\* types; the step that sets the error naming the accepted formats issues no
\* request and leaves the file selected before as it is.
C19_VideoUploadsAccepted ==
    [][/\ \A r \in Issued(net, net') :
             r.api = "uploadLessonFile" /\ r.lesson_type = "video" =>
                r.file \in ValidVideoTypes
       /\ lessonError' = VideoFormats /\ lessonError # VideoFormats =>
             /\ net' = net
             /\ lessonFile' = lessonFile
      ]_vars

(***************************************************************************)
(* Properties of the dashboard.                                            *)
(***************************************************************************)
\* the /my/courses requests issued in this step
CoursesIssued == {r \in Issued(net, net') : r.api = "getMyCourses"}

\* a /my/courses request settles in this step
CoursesSettles ==
    \E r \in InFlight :
       r.api = "getMyCourses" /\ CopiesIn(r, net') < CopiesIn(r, net)

\* C13: every /my/courses request is issued with skip = (currentPage - 1) *
\* perPage and limit = perPage for the currentPage and perPage of the state
\* the step leads to; totalCourses, from which the page count shown is
\* computed, becomes the backend's total when such a request settles with a
\* 2xx answer and changes in no other step.
C13_SkipLimit ==
    [][/\ \A r \in CoursesIssued :
             /\ r.skip = (currentPage' - 1) * perPage'
             /\ r.limit = perPage'
       /\ IF CoursesSettles /\ Ok(response'.status)
          THEN totalCourses' = Len(srvItems)
          ELSE totalCourses' = totalCourses
      ]_vars

\* the items a /my/courses request that settles in this step is answered with
CoursesAnswered ==
    {PageOf(srvItems, r.skip, r.limit) :
        r \in {q \in InFlight : /\ q.api = "getMyCourses"
                                 /\ CopiesIn(q, net') < CopiesIn(q, net)}}

\* C15: when /my/courses is answered 2xx, userCourses has the length and the
\* order of the response's items; an item with the member course_id becomes
\* a UserCourse with id = course_id, title = course_title, the item's
\* numeric progress and no status; an item without it becomes one with the
\* item's id and title, progress null, and the item's status or `draft`.
C15_Projection ==
    [][CoursesSettles /\ Ok(response'.status) =>
         \A items \in CoursesAnswered :
            /\ Len(userCourses') = Len(items)
            /\ \A k \in 1..Len(items) :
                  LET item == items[k]
                      shown == userCourses'[k]
                  IN  IF "course_id" \in DOMAIN item
                      THEN /\ shown.id = item.course_id
                           /\ shown.title = item.course_title
                           /\ shown.progress = item.progress
                           /\ shown.progress \in Nat
                           /\ "status" \notin DOMAIN shown
                      ELSE /\ shown.id = item.id
                           /\ shown.title = item.title
                           /\ shown.progress = NoProgress
                           /\ "status" \in DOMAIN shown
                           /\ shown.status =
                                 IF "status" \in DOMAIN item
                                 THEN item.status ELSE "draft"
      ]_vars

\* an enrollment and a course without status are shown side by side
C15_BothShapesShown ==
    /\ response.api = "getMyCourses" /\ Ok(response.status)
    /\ \E k \in 1..Len(userCourses) :
          /\ "status" \notin DOMAIN userCourses[k]
          /\ userCourses[k].progress = 50
    /\ \E k \in 1..Len(userCourses) :
          /\ "status" \in DOMAIN userCourses[k]
          /\ userCourses[k].status = "draft"
          /\ k <= Len(srvItems)
          /\ "status" \notin DOMAIN srvItems[k]

\* C14: currentPage is at least 1, and at most the page count whenever that
\* is at least 1; every /my/courses request is for a page from 1 to the page
\* count (when that is at least 1).
C14_PageInRange ==
    /\ [](/\ currentPage >= 1
          /\ TotalPages >= 1 => currentPage <= TotalPages)
    /\ [][\A r \in CoursesIssued :
             /\ r.skip >= 0
             /\ Ceil(totalCourses', perPage') >= 1 =>
                   r.skip < Ceil(totalCourses', perPage') * r.limit]_vars

(***************************************************************************)
(* Properties of the session layer.                                        *)
(***************************************************************************)
\* the whoami requests among the requests reqs, and those of the startup effect
Whoami(reqs) ==
    [r \in {x \in BagToSet(reqs) : x.api = "getCurrentUser"} |-> CopiesIn(r, reqs)]
StartupWhoami(reqs) ==
    [r \in {x \in BagToSet(Whoami(reqs)) : x.origin = "startup"} |-> CopiesIn(r, reqs)]

\* App has just mounted: nothing but what the startup effect issued is in flight
JustMounted == response = NoResponse /\ user = NoUser /\ net = StartupWhoami(net)

\* a step in which the startup whoami request settles
StartupSettles ==
    BagCardinality(StartupWhoami(net')) < BagCardinality(StartupWhoami(net))

\* C2: on every mount of App (first load or reload) no whoami request is
\* issued when no access token is stored and exactly one, carrying the stored
\* token, when one is; the loading flag is up exactly while that request is in
\* flight.  When it settles with a 2xx answer the user becomes the user of
\* the answer and the tokens stay; when it settles with any other answer both
\* tokens are removed, the user stays null and no whoami request is in flight
\* afterwards; in both cases the loading flag is down after the step.  A
\* startup whoami request never appears while storage holds no access token.
C2_StartupWhoami ==
    /\ [](/\ BagCardinality(StartupWhoami(net)) = IF appLoading THEN 1 ELSE 0
          /\ appLoading => /\ net = StartupWhoami(net)
                           /\ \A r \in InFlight : r.token = access_token
                           /\ access_token # NoToken /\ user = NoUser
          /\ JustMounted /\ access_token = NoToken => net = EmptyBag /\ ~appLoading
          /\ JustMounted /\ access_token # NoToken =>
                BagCardinality(net) = 1 /\ appLoading)
    /\ [][/\ StartupSettles =>
               /\ response'.origin = "startup"
               /\ ~appLoading'
               /\ IF Ok(response'.status)
                  THEN /\ user' = response'.user /\ user' # NoUser
                       /\ UNCHANGED <<access_token, refresh_token>>
                  ELSE /\ access_token' = NoToken /\ refresh_token' = NoToken
                       /\ user' = NoUser
                       /\ Whoami(net') = EmptyBag
          /\ Issued(StartupWhoami(net), StartupWhoami(net')) # {} =>
                access_token' # NoToken
          /\ ~appLoading /\ appLoading' => navPending /\ ~navPending'
       ]_vars

\* C2 witness: the startup whoami request has failed with a status other
\* than 401, the tokens are gone, the user is null, loading is over
C2_StartupFailed ==
    /\ response.origin = "startup" /\ response.status = 500
    /\ access_token = NoToken /\ refresh_token = NoToken
    /\ user = NoUser /\ ~appLoading /\ net = EmptyBag

\* C3: a whoami request of a login or registration flow appears only in the
\* step that settles a login request with a 2xx answer, and after that step
\* local storage holds both tokens of that answer and the request carries the
\* access token; the in-memory user changes to a non-null value only in a
\* step that settles a whoami request with a 2xx answer, and to the user of
\* that answer.
C3_TokensThenWhoami ==
    [][/\ \A r \in Issued(Whoami(net), Whoami(net')) :
             r.origin = "handleAuthSuccess" =>
                /\ response'.api = "login" /\ Ok(response'.status)
                /\ access_token' = response'.auth.access_token
                /\ refresh_token' = response'.auth.refresh_token
                /\ access_token' # NoToken /\ refresh_token' # NoToken
                /\ r.token = access_token'
       /\ user' # user /\ user' # NoUser =>
             /\ response'.api = "getCurrentUser" /\ Ok(response'.status)
             /\ user' = response'.user
             /\ Issued(Whoami(net'), Whoami(net)) # {}
      ]_vars

\* C3 witness: in a registration flow (register, then login) the login has
\* just been answered: both tokens of the answer are stored and the whoami
\* request carrying the access token is in flight, the user still null
C3_RegisteredIn ==
    /\ response.api = "login" /\ response.origin = "RegisterModal"
    /\ Ok(response.status)
    /\ access_token = response.auth.access_token
    /\ refresh_token = response.auth.refresh_token
    /\ user = NoUser
    /\ \E r \in InFlight : /\ r.api = "getCurrentUser" /\ r.origin = "handleAuthSuccess"
                      /\ r.token = access_token

\* a logout step: App has a user and the step removes it without a reload
LogoutStep == user # NoUser /\ user' = NoUser /\ ~(navPending /\ ~navPending')

\* C4: the step that logs out leaves both tokens absent and the user null,
\* and neither issues nor drops a request.
C4_Logout ==
    [][LogoutStep => /\ access_token' = NoToken /\ refresh_token' = NoToken
                     /\ user' = NoUser
                     /\ net' = net]_vars

\* C4 witness: logged out while a request is still in flight: storage is
\* empty, the user is null, the request is untouched
C4_LoggedOut ==
    /\ user = NoUser /\ ~appLoading /\ ~navPending
    /\ access_token = NoToken /\ refresh_token = NoToken
    /\ response.api = "getCurrentUser" /\ Ok(response.status)
    /\ \E r \in InFlight : r.orphan

(***************************************************************************)
(* Properties of the ad-hoc request guards.                                *)
(***************************************************************************)
\* no two requests of the wrapper api are in flight
AtMostOne(api) ==
    \A r \in InFlightOf(api), q \in InFlightOf(api) :
       r = q /\ CopiesIn(r, net) = 1

C22_OneAddCommentInFlight == AtMostOne("addSubmissionComment")

(***************************************************************************)
(* Properties of the router.                                               *)
(***************************************************************************)
AppPages == {"CoursePage", "AssignmentsPage", "Dashboard", "LandingPage"}

Awaiting(apis) == \E r \in InFlight : r.api \in apis

\* a request the mounted modal `origin` awaits is in flight
ModalAwaiting(origin) == \E r \in InFlight : r.origin = origin /\ ~r.orphan

\* the handler `caller` is inside its `await fetchLessons(...)`
InFetchLessons(caller) ==
    \/ \E r \in InFlight : r.api = "getCourseLessons" /\ r.caller = caller
    \/ fetching.caller = caller

\* the flags of the page on screen that are up although no request of the
\* handler that raised them is in flight
FlagsLeftUp ==
    {f \in {"appLoading", "loginLoading", "regLoading", "loading", "grading",
            "returning", "loadingComments", "addingComment", "dashLoading",
            "createLoading", "courseLoading", "lessonLoading", "deleting"} :
       CASE f = "appLoading" ->
              appLoading /\ StartupWhoami(net) = EmptyBag
         [] f = "loginLoading" ->
              path = "/" /\ loginLoading /\ ~ModalAwaiting("LoginModal")
         [] f = "regLoading" ->
              path = "/" /\ regLoading /\ ~ModalAwaiting("RegisterModal")
         [] f = "loading" ->
              path = "/assignments" /\ loading
              /\ ~Awaiting({"getPendingSubmissions"})
         [] f = "grading" -> grading /\ ~Awaiting({"gradeSubmission"})
         [] f = "returning" -> returning /\ ~Awaiting({"returnSubmission"})
         [] f = "loadingComments" ->
              loadingComments /\ ~Awaiting({"getSubmissionComments"})
         [] f = "addingComment" ->
              addingComment /\ ~Awaiting({"addSubmissionComment"})
         [] f = "dashLoading" ->
              path = "/dashboard" /\ dashLoading /\ ~Awaiting({"getMyCourses"})
         [] f = "createLoading" ->
              createLoading /\ ~Awaiting({"createCourse"})
         [] f = "courseLoading" ->
              path = "/courses/1" /\ courseLoading
              /\ ~Awaiting({"getCourse"}) /\ ~InFetchLessons("fetchData")
         [] f = "lessonLoading" ->
              lessonLoading
              /\ ~Awaiting({"createLesson", "updateLesson", "uploadLessonFile"})
         [] f = "deleting" ->
              deleting /\ ~Awaiting({"deleteLesson"})
              /\ ~InFetchLessons("handleDeleteLesson")}

\* the loading and submitting flags of the page on screen
PageFlags ==
    CASE path = "/" -> <<appLoading, loginLoading, regLoading>>
      [] path = "/assignments" ->
           <<loading, grading, returning, loadingComments, addingComment>>
      [] path = "/dashboard" -> <<dashLoading, createLoading>>
      [] path = "/courses/1" -> <<courseLoading, lessonLoading, deleting>>

\* the k-th flag of the page on screen is up
FlagUp(k) == k <= Len(PageFlags) /\ PageFlags[k]

\* C24: every loading or submitting flag raised when a request starts is
\* down once the requests of its handler have settled, whether they
\* succeeded or failed; as every request eventually settles, every raised
\* flag is eventually down.
C24_FlagsCleared ==
    /\ [](FlagsLeftUp = {})
    /\ \A k \in 1..5 : FlagUp(k) ~> ~FlagUp(k)

\* a grade request has failed: the inline error is shown, the flag is down
\* and no grade request is in flight
C24_GradeFailedFlagDown ==
    /\ path = "/assignments" /\ gradeError = "grade failed"
    /\ ~grading /\ ~Awaiting({"gradeSubmission"})

(***************************************************************************)
(* Properties of the lesson list after a change.                           *)
(***************************************************************************)
\* the list refresh that handleLessonSuccess started after a lesson was
\* created returns in this step
CreatedAndRefreshed ==
    /\ FetchLessonsReturns
    /\ fetching.caller = "handleLessonSuccess" /\ fetching.about = 0

\* C25: after a new lesson has been created through the lesson modal and the
\* lesson list has been refreshed, the selected lesson is the lesson just
\* added (the one with the last id the backend gave out), whatever `order`
\* it was created with.
C25_NewLessonSelected ==
    [][CreatedAndRefreshed => selectedLesson'.id = srvLastId]_vars


(***************************************************************************)
(* Properties of the submission list and the filter tabs.                  *)
(***************************************************************************)
\* loadSubmissions() stores the list of the request r and leaves no list
\* request in flight
LastListStored(r) ==
    /\ LoadSettled(r) /\ Ok(r.status)
    /\ InFlightOf("getPendingSubmissions")' = {}

\* C26: whenever no list request is in flight, the list displayed is the
\* result of a fetch made with the selected status filter: the list a
\* loadSubmissions() stores, when no other list request remains in flight,
\* was requested with the statusFilter of the page.
C26_ListOfSelectedFilter ==
    [][\A r \in InFlightOf("getPendingSubmissions") :
          LastListStored(r) => r.filter = statusFilter']_vars


(***************************************************************************)
(* Properties of the comments modal over several submissions.              *)
(***************************************************************************)
CommentApis == {"getSubmissionComments", "addSubmissionComment"}

\* the submissions whose comments are in the list in memory
Commented == {comments[k].submission_id : k \in 1..Len(comments)}

\* C27: whenever the comments modal is open for a submission and no comment
\* request is in flight, every comment of the list in memory belongs to
\* that submission.
C27_CommentsOfViewed ==
    (/\ viewingComments # NoSubmission
     /\ \A api \in CommentApis : InFlightOf(api) = {})
        => Commented \subseteq {viewingComments.submission_id}


(***************************************************************************)
(* Properties of the selection on the course page.                         *)
(***************************************************************************)
\* the ids of the lessons in the list in memory
ListedIds == {lessons[k].id : k \in 1..Len(lessons)}

\* C28: whenever no request of the course page is in flight, the selected
\* lesson is null or a lesson whose id is in the lesson list.
C28_SelectionListed ==
    Quiet => (selectedLesson = NoLesson \/ selectedLesson.id \in ListedIds)


(***************************************************************************)
(* Properties of the session: the stored token and the user in memory.     *)
(***************************************************************************)
\* no login, register or whoami request is in flight and no navigation to
\* the root path is about to replace the document
SessionAtRest ==
    /\ \A api \in AuthApis : InFlightOf(api) = {}
    /\ ~navPending

\* C29: whenever no auth request is in flight, an access token is stored
\* if and only if the user in memory is non-null.
C29_TokenIffUser ==
    SessionAtRest => (access_token # NoToken <=> user # NoUser)


(***************************************************************************)
(* Properties of the lesson modal after a failed upload.                   *)
(***************************************************************************)
\* the form is submitted again in the modal that a failed upload left open
\* in create mode
SubmittedAfterUploadFailed ==
    /\ LessonSubmit
    /\ editingLesson = NoLesson
    /\ lessonError = "upload failed"

\* C30: in create mode, when the lesson has been created and the upload has
\* failed, submitting the form again creates no second lesson: no
\* createLesson request is sent.
C30_NoSecondCreate ==
    [][SubmittedAfterUploadFailed => InFlightOf("createLesson")' = {}]_vars

====
